---------------------------- MODULE Spec2Model ----------------------------
(***************************************************************************)
(* A model of imgcd: the digest-keyed blob cache, the registry save flow   *)
(* that packs compressed blobs into a bundle, and the bundle loader that   *)
(* rebuilds a Docker image archive for the local runtime.                  *)
(*                                                                         *)
(* Byte strings are sequences of symbolic chunks.  SHA-256 is modelled as  *)
(* a collision-free function (a tagged copy of its argument); gzip wraps   *)
(* a payload in a header and a trailer, and gunzip fails on anything that  *)
(* does not carry both.                                                    *)
(***************************************************************************)
EXTENDS Integers, Sequences, FiniteSets, TLC

VARIABLES
    index,       \* cache: per process, the in-memory BlobCacheIndex.Blobs
    indexFile,   \* cache: the contents of index.json (last writer wins)
    files,       \* cache: the files under blobs/sha256, by file name
    put,         \* cache: per process, the Put call in progress
    ret,         \* cache: the call that returned last, and what it returned
    registry,    \* the new and the base image as the registry serves them
    host,        \* the images the local runtime of the loading host holds
    save,        \* ExportFromRegistry: where it is, and its locals
    bundle,      \* the bundle file: its tar entries in order
    load,        \* LoadBundle: where it is, and its locals
    rtCalls,     \* the calls made to the local runtime, in order
    now,         \* the wall clock, as time.Now() reads it
    compare,     \* Differ.Compare: where it is, and its locals
    ob,          \* LayerProcessor.ProcessLayers: workers, buffer and channel
    fn           \* the call of a function of the naming rules, and its result

cacheVars == <<index, indexFile, files, put, ret>>

otherVars == <<compare, ob, fn>>

flowVars == <<registry, host, save, bundle, load, rtCalls, now, otherVars>>

vars == <<index, indexFile, files, put, ret,
          registry, host, save, bundle, load, rtCalls, now, compare, ob, fn>>

\* A part of the program that is not running.
Off == [pc |-> "off"]

----------------------------------------------------------------------------
(* Bytes, digests, gzip *)

\* Uncompressed layer tars.
Tars == {<<"t1">>, <<"t2">>}

\* gzip at a given compression level: same payload, different bytes.
Gzip(t, lvl) == <<"gz", lvl>> \o t \o <<"crc">>

\* Bytes that are no gzip stream at all.
Junk == <<"junk">>

\* gzip.NewReader accepts the stream's header.
GzipHeaderOk(b) == Len(b) >= 2 /\ b[1] = "gz"

\* The whole stream decompresses: header, payload and trailer are there.
GunzipOk(b) == Len(b) >= 3 /\ b[1] = "gz" /\ b[Len(b)] = "crc"

\* A gzip stream cut off before its trailer.
Truncated(b) == SubSeq(b, 1, Len(b) - 1)

Gunzip(b) == SubSeq(b, 3, Len(b) - 1)

\* hex.EncodeToString(hasher.Sum(nil)) over the bytes b.
HexSum(b) == [hex |-> b]

\* "sha256:" + hex
Sha256(b) == <<"sha256:", HexSum(b)>>

\* A digest written without its "sha256:" prefix.
Bare(d) == <<"", d[2]>>

normalizeDigest(d) == IF d[1] = "sha256:" THEN d ELSE <<"sha256:", d[2]>>

\* strings.TrimPrefix(digest, "sha256:") joined to the cache directory.
getBlobPath(d) == d[2]

----------------------------------------------------------------------------
(* The blob cache (package cache) *)

\* Two imgcd processes sharing one cache directory.
Procs == {1, 2}

\* Each process is one imgcd invocation, saving its own image reference.
imageRefOf(p) == IF p = 1 THEN "app:1" ELSE "app:2"

\* What the registry may stream for a blob: a real blob, or other bytes.
RegistryBlobs == {Gzip(t, "fast") : t \in Tars}

Streams == RegistryBlobs \cup {Junk}

NoDigest == <<"", HexSum(<<>>)>>

IdlePut ==
    [st |-> "idle", digest |-> NoDigest, diffID |-> NoDigest, ref |-> "",
     rest |-> <<>>, hashed |-> <<>>]

NoRet == [p |-> 0, op |-> "", digest |-> NoDigest, err |-> ""]

containsImageRef(refs, ref) == \E i \in 1 .. Len(refs) : refs[i] = ref

Exists(p, d) == normalizeDigest(d) \in DOMAIN index[p]

\* os.Create: a new empty file, or the existing file truncated; the caller holds
\* a handle on it.
OsCreate(fs, path, p) ==
    IF path \in DOMAIN fs
    THEN [fs EXCEPT ![path] = [data |-> <<>>, open |-> @.open \cup {p}]]
    ELSE [x \in DOMAIN fs \cup {path} |->
            IF x = path THEN [data |-> <<>>, open |-> {p}] ELSE fs[x]]

\* A write of one chunk at the handle's offset.  The bytes land in the file at
\* the path only while that file is still the one the handle was opened on.
WriteAt(data, off, c) ==
    LET padded == data \o [i \in 1 .. (off - Len(data)) |-> "nul"]
    IN  [i \in 1 .. (IF off + 1 > Len(padded) THEN off + 1 ELSE Len(padded)) |->
            IF i = off + 1 THEN c ELSE padded[i]]

OsWrite(fs, path, p, off, c) ==
    IF path \in DOMAIN fs /\ p \in fs[path].open
    THEN [fs EXCEPT ![path].data = WriteAt(@, off, c)]
    ELSE fs

\* file.Close()
OsClose(fs, path, p) ==
    IF path \in DOMAIN fs
    THEN [fs EXCEPT ![path].open = @ \ {p}]
    ELSE fs

\* os.Remove: unlinks whatever file is at the path.
OsRemove(fs, path) == [x \in DOMAIN fs \ {path} |-> fs[x]]

\* Put, the digest already in the index: only the image refs are touched.
PutExisting(p, d, ref) ==
    LET meta == index[p][d]
    IN  /\ IF containsImageRef(meta.refs, ref)
           THEN UNCHANGED <<index, indexFile>>
           ELSE /\ index' = [index EXCEPT ![p][d].refs = Append(@, ref),
                                          ![p][d].lastAccess = now]
                /\ indexFile' = index'[p]
        /\ ret' = [p |-> p, op |-> "Put", digest |-> d, err |-> ""]
        /\ UNCHANGED <<files, put>>
        /\ UNCHANGED flowVars

\* Put, up to os.Create(blobPath): the lock is taken, the digest normalized,
\* and for a digest not in the index the blob file is created at its final path.
PutStart(p, digest, diffID, stream, ref) ==
    /\ put[p].st = "idle"
    /\ LET d == normalizeDigest(digest)
       IN  IF d \in DOMAIN index[p]
           THEN PutExisting(p, d, ref)
           ELSE /\ files' = OsCreate(files, getBlobPath(d), p)
                /\ put' = [put EXCEPT ![p] =
                       [st |-> "streaming", digest |-> d,
                        diffID |-> normalizeDigest(diffID), ref |-> ref,
                        rest |-> stream, hashed |-> <<>>]]
                /\ UNCHANGED <<index, indexFile, ret>>
                /\ UNCHANGED flowVars

\* The cleanup of a failed io.Copy: os.Remove(blobPath), then the deferred Close.
PutCopyCleanup(fs, path, p) == OsClose(OsRemove(fs, path), path, p)

\* One round of io.Copy(file, tee): a chunk is read, hashed and written.
PutCopy(p) ==
    /\ put[p].st = "streaming"
    /\ put[p].rest # <<>>
    /\ files' = OsWrite(files, getBlobPath(put[p].digest), p,
                        Len(put[p].hashed), Head(put[p].rest))
    /\ put' = [put EXCEPT ![p].rest = Tail(@),
                          ![p].hashed = Append(@, Head(put[p].rest))]
    /\ UNCHANGED <<index, indexFile, ret>>
    /\ UNCHANGED flowVars

\* io.Copy fails (the stream breaks midway).
PutCopyFails(p) ==
    /\ put[p].st = "streaming"
    /\ put[p].rest # <<>>
    /\ files' = PutCopyCleanup(files, getBlobPath(put[p].digest), p)
    /\ put' = [put EXCEPT ![p] = IdlePut]
    /\ ret' = [p |-> p, op |-> "Put", digest |-> put[p].digest, err |-> "write"]
    /\ UNCHANGED <<index, indexFile>>
    /\ UNCHANGED flowVars

\* A Put that leaves the blob file behind on a digest mismatch.
PutMismatchCleanup_NoRemove(fs, path, p) == OsClose(fs, path, p)

\* The cleanup of a digest mismatch: os.Remove(blobPath), then the deferred Close.
PutMismatchCleanup(fs, path, p) == OsClose(OsRemove(fs, path), path, p)

\* The end of Put: the digest of what was streamed is compared with the key.
PutVerify(p) ==
    /\ put[p].st = "streaming"
    /\ put[p].rest = <<>>
    /\ LET d == put[p].digest
           calculatedDigest == Sha256(put[p].hashed)
       IN  IF calculatedDigest # d
           THEN /\ files' = PutMismatchCleanup(files, getBlobPath(d), p)
                /\ ret' = [p |-> p, op |-> "Put", digest |-> d, err |-> "mismatch"]
                /\ UNCHANGED <<index, indexFile>>
           ELSE /\ files' = OsClose(files, getBlobPath(d), p)
                /\ index' = [index EXCEPT ![p] =
                       [x \in DOMAIN index[p] \cup {d} |->
                           IF x = d
                           THEN [diffID |-> put[p].diffID,
                                 size |-> Len(put[p].hashed),
                                 refs |-> <<put[p].ref>>,
                                 lastAccess |-> now]
                           ELSE index[p][x]]]
                /\ indexFile' = index'[p]
                /\ ret' = [p |-> p, op |-> "Put", digest |-> d, err |-> ""]
    /\ put' = [put EXCEPT ![p] = IdlePut]
    /\ UNCHANGED flowVars

\* A Get that keeps the index entry of a blob whose file is gone.
EvictMissing_Keep(idx, d) == idx

\* delete(bc.index.Blobs, digest)
EvictMissing(idx, d) == [x \in DOMAIN idx \ {d} |-> idx[x]]

\* Get as a function of the index and the files: the index entry, then os.Open
\* of the blob file, then the entry's LastAccess.  saved tells whether
\* index.json was rewritten.
\* A Get that never finds its blob.
GetF_NotInCache(idx, fs, digest) ==
    [index |-> idx, saved |-> FALSE, err |-> "not in cache"]

GetF(idx, fs, digest) ==
    LET d == normalizeDigest(digest)
    IN  IF d \notin DOMAIN idx
        THEN [index |-> idx, saved |-> FALSE, err |-> "not in cache"]
        ELSE IF getBlobPath(d) \notin DOMAIN fs
        THEN [index |-> EvictMissing(idx, d), saved |-> TRUE,
              err |-> "file not found"]
        ELSE [index |-> [idx EXCEPT ![d].lastAccess = now], saved |-> TRUE,
              err |-> ""]

Get(p, digest) ==
    /\ put[p].st = "idle"
    /\ LET r == GetF(index[p], files, digest)
       IN  /\ index' = [index EXCEPT ![p] = r.index]
           /\ indexFile' = IF r.saved THEN r.index ELSE indexFile
           /\ ret' = [p |-> p, op |-> "Get", digest |-> normalizeDigest(digest),
                      err |-> r.err]
    /\ UNCHANGED <<files, put>>
    /\ UNCHANGED flowVars

\* NewBlobCache in a fresh process: the index is read back from index.json.
NewBlobCache(p) ==
    /\ put[p].st = "idle"
    /\ index[p] # indexFile
    /\ index' = [index EXCEPT ![p] = indexFile]
    /\ UNCHANGED <<indexFile, files, put, ret>>
    /\ UNCHANGED flowVars

CacheDigests == {Sha256(b) : b \in RegistryBlobs}

CacheInit ==
    /\ index = [p \in Procs |-> <<>>]
    /\ indexFile = <<>>
    /\ files = <<>>
    /\ put = [p \in Procs |-> IdlePut]
    /\ ret = NoRet
    /\ registry = [new |-> <<>>, base |-> <<>>]
    /\ host = [hasBase |-> FALSE, base |-> <<>>]
    /\ save = [pc |-> "off"]
    /\ bundle = <<>>
    /\ load = [pc |-> "off"]
    /\ rtCalls = <<>>
    /\ now = 0
    /\ compare = Off
    /\ ob = Off
    /\ fn = Off

CacheNext ==
    \E p \in Procs :
        \/ \E b \in RegistryBlobs, s \in Streams, bare \in BOOLEAN :
              PutStart(p, IF bare THEN Bare(Sha256(b)) ELSE Sha256(b),
                       Sha256(Gunzip(b)), s, imageRefOf(p))
        \/ PutCopy(p)
        \/ PutCopyFails(p)
        \/ PutVerify(p)
        \/ \E d \in CacheDigests : Get(p, d)
        \/ NewBlobCache(p)

SpecCache == CacheInit /\ [][CacheNext]_vars

----------------------------------------------------------------------------
(* Claims about the blob cache *)

\* C1: a Put of a digest that is not cached which returns an error (the streamed
\* bytes hash to another digest, or the stream fails midway) leaves no file at
\* the digest's blob path, leaves the digest out of the index, and leaves every
\* index entry as it was.
C1_FailedPutLeavesNoBlob ==
    [][\A p \in Procs :
          (put[p].st = "streaming" /\ put'[p].st = "idle"
              /\ ret'.p = p /\ ret'.err # "")
          => /\ getBlobPath(put[p].digest) \notin DOMAIN files'
             /\ put[p].digest \notin DOMAIN index'[p]
             /\ index' = index]_vars

\* C1, its case: a Put has just failed on a digest mismatch in a process whose
\* index holds another entry, and the blob path is empty.
C1_Witness ==
    /\ ret.op = "Put" /\ ret.err = "mismatch"
    /\ index[ret.p] # <<>>
    /\ getBlobPath(ret.digest) \notin DOMAIN files

\* C2: every file present under blobs/sha256/H holds exactly the bytes whose
\* SHA-256 is H, in every state, a Put in progress included.
C2_BlobFilesAlwaysVerified ==
    \A h \in DOMAIN files : Sha256(files[h].data) = <<"sha256:", h>>


----------------------------------------------------------------------------
(* Images, bundle metadata *)

MaxLayers == 2

SeqsUpTo(S, n) == UNION {[1 .. k -> S] : k \in 0 .. n}

\* The tars an image layer may hold.
LayerTars == Tars \cup {<<"t3">>}

\* A v1.Layer of a registry image: Digest(), DiffID() and the bytes Compressed()
\* streams.
LayerOf(t) ==
    [digest |-> Sha256(Gzip(t, "fast")), diffID |-> Sha256(t),
     blob |-> Gzip(t, "fast")]

\* Image.Layers(): an image is kept as the sequence of its layers' tars.
Layers(img) == [i \in 1 .. Len(img) |-> LayerOf(img[i])]

\* Image.ConfigFile(): rootfs.diff_ids lists the layers' diffIDs in order.
ConfigFile(img) ==
    [isNil |-> FALSE, diff_ids |-> [i \in 1 .. Len(img) |-> Sha256(img[i])]]

NilConfig == [isNil |-> TRUE, diff_ids |-> <<>>]

\* bundle.LayerInfo
LayerInfo(l) == [digest |-> l.digest, diffID |-> l.diffID]

NewRef == "app:2"

BaseRef == "app:1"

SaveProc == 1

----------------------------------------------------------------------------
(* The registry save flow (RemoteExporter.ExportFromRegistry) *)

RECURSIVE FilterShared(_, _)
\* The loop over newLayers of an incremental export: a layer whose diffID is in
\* baseDiffIDs is skipped, every other layer is appended.
FilterShared(layers, baseDiffIDs) ==
    IF layers = <<>> THEN <<>>
    ELSE IF Head(layers).diffID \in baseDiffIDs
         THEN FilterShared(Tail(layers), baseDiffIDs)
         ELSE <<Head(layers)>> \o FilterShared(Tail(layers), baseDiffIDs)

\* An export that leaves out the base's layers whether or not a sinceRef was
\* given.
PlanExport_FilterAlways(newImg, baseImg, sinceRef) ==
    LET newLayers   == Layers(newImg)
        baseDiffIDs == {Layers(baseImg)[i].diffID : i \in 1 .. Len(baseImg)}
        kept        == FilterShared(newLayers, baseDiffIDs)
    IN  [layersToExport |-> IF Len(kept) = 0 THEN newLayers ELSE kept,
         layerInfos     |-> [i \in 1 .. Len(kept) |-> LayerInfo(kept[i])]]

\* layersToExport and layerInfos as ExportFromRegistry leaves them before the
\* download: the incremental or the full branch, then the check for an empty
\* layersToExport, which resets layersToExport alone.
PlanExport(newImg, baseImg, sinceRef) ==
    LET newLayers   == Layers(newImg)
        baseDiffIDs == {Layers(baseImg)[i].diffID : i \in 1 .. Len(baseImg)}
        kept        == IF sinceRef # ""
                       THEN FilterShared(newLayers, baseDiffIDs)
                       ELSE newLayers
    IN  [layersToExport |-> IF Len(kept) = 0 THEN newLayers ELSE kept,
         layerInfos     |-> [i \in 1 .. Len(kept) |-> LayerInfo(kept[i])]]

NoResult == [done |-> FALSE, digest |-> NoDigest, diffID |-> NoDigest,
             fromCache |-> FALSE, err |-> ""]

\* The maxConcurrency ExportFromRegistry passes to DownloadBlobsWithProgress.
MaxConcurrency == 4

\* The capacity of sem when maxConcurrency is zero or negative.
DefaultConcurrency == 4

\* The capacity of sem: maxConcurrency, or the default when it is not positive.
EffectiveConcurrency(maxConcurrency) ==
    IF maxConcurrency <= 0 THEN DefaultConcurrency ELSE maxConcurrency

\* outDir before anything is written to it.
EmptyDir == <<>>

\* The save before ExportFromRegistry is called.  started holds the workers
\* that are past their ctx.Done() check and finished those that have released
\* sem and called wg.Done(); cancelled tells whether ctx was cancelled and
\* cachedAtCancel remembers the index at that moment; fetched maps the workers
\* that called their layer's Compressed() to the stream they got; completed
\* is the downloader's counter, current maps a worker to the value it read
\* from it, calling holds the workers that are inside progressCallback and
\* callbacks lists its invocations; outDir maps the files of the output
\* directory to what was written to them; run counts the saves.
\* useCache is the flag NewRemoteExporter was made with.
\* withProgress tells whether the workers' way through the counter and the
\* progress callback is followed step by step.  The callback ExportFromRegistry
\* passes writes one line to stderr and touches nothing else: its workers are
\* taken to run it within the step that stores their result.
SaveIdle ==
    [pc |-> "start", sinceRef |-> "", layersToExport |-> <<>>,
     layerInfos |-> <<>>, results |-> <<>>, err |-> "", started |-> {},
     cancelled |-> FALSE, cachedAtCancel |-> {}, outDir |-> EmptyDir,
     maxConcurrency |-> MaxConcurrency, withProgress |-> FALSE,
     finished |-> {}, fetched |-> <<>>, completed |-> 0, current |-> <<>>,
     calling |-> {}, callbacks |-> <<>>, run |-> 1, useCache |-> TRUE]

\* ExportFromRegistry up to the call of DownloadBlobsWithProgress.
SaveStart(sinceRef) ==
    /\ save.pc = "start"
    /\ LET plan == PlanExport(registry.new, registry.base, sinceRef)
       IN  save' = [SaveIdle EXCEPT
                       !.pc = "download", !.sinceRef = sinceRef,
                       !.useCache = save.useCache,
                       !.layersToExport = plan.layersToExport,
                       !.layerInfos = plan.layerInfos,
                       !.results = [i \in 1 .. Len(plan.layersToExport) |->
                                       NoResult]]
    /\ UNCHANGED <<now, otherVars, registry, host, bundle, load, rtCalls>>
    /\ UNCHANGED cacheVars

\* What a reader yields in place of a chunk when the read fails (the request's
\* context was cancelled, the connection broke).
ReadErr == "read-error"

\* The stream of a layer whose Compressed() returned an error.
NoStream == <<"no-stream">>

ReadFails(stream) == \E i \in 1 .. Len(stream) : stream[i] = ReadErr

\* The chunks a reader yields before its read error.
BeforeErr(stream) ==
    LET bad == CHOOSE i \in 1 .. Len(stream) :
                   stream[i] = ReadErr /\ \A j \in 1 .. (i - 1) : stream[j] # ReadErr
    IN  SubSeq(stream, 1, bad - 1)

\* A blob's stream cut by a read error after its first n chunks.
Broken(blob, n) == Append(SubSeq(blob, 1, n), ReadErr)

RECURSIVE WriteAll(_, _, _, _, _)
\* io.Copy(file, tee) run to its end.
WriteAll(fs, path, p, off, stream) ==
    IF stream = <<>> THEN fs
    ELSE WriteAll(OsWrite(fs, path, p, off, Head(stream)), path, p, off + 1,
                  Tail(stream))

\* Put run from start to end by a process that is alone in the cache directory.
PutF(idx, fs, digest, diffID, stream, ref, p) ==
    LET d    == normalizeDigest(digest)
        path == getBlobPath(d)
    IN  IF d \in DOMAIN idx
        THEN [index |-> IF containsImageRef(idx[d].refs, ref) THEN idx
                        ELSE [idx EXCEPT ![d].refs = Append(@, ref),
                                         ![d].lastAccess = now],
              files |-> fs, saved |-> ~containsImageRef(idx[d].refs, ref),
              read |-> 0, err |-> ""]
        ELSE IF ReadFails(stream)
        THEN [index |-> idx,
              files |-> PutCopyCleanup(
                            WriteAll(OsCreate(fs, path, p), path, p, 0,
                                     BeforeErr(stream)), path, p),
              saved |-> FALSE, read |-> Len(BeforeErr(stream)),
              err |-> "failed to write blob to cache"]
        ELSE LET written == WriteAll(OsCreate(fs, path, p), path, p, 0, stream)
             IN  IF Sha256(stream) # d
                 THEN [index |-> idx,
                       files |-> PutMismatchCleanup(written, path, p),
                       saved |-> FALSE, read |-> Len(stream),
                       err |-> "mismatch"]
                 ELSE [index |-> [x \in DOMAIN idx \cup {d} |->
                                    IF x = d
                                    THEN [diffID |-> normalizeDigest(diffID),
                                          size |-> Len(stream),
                                          refs |-> <<ref>>,
                                          lastAccess |-> now]
                                    ELSE idx[x]],
                       files |-> OsClose(written, path, p),
                       saved |-> TRUE, read |-> Len(stream), err |-> ""]

\* downloadSingleBlob: a cache hit, or the layer's compressed stream handed to
\* Put.  stream is what the registry sends for the blob.
downloadSingleBlob(idx, fs, layer, stream, ref, p) ==
    LET got == GetF(idx, fs, layer.digest)
    IN  IF normalizeDigest(layer.digest) \in DOMAIN idx /\ got.err = ""
        THEN [index |-> got.index, files |-> fs, saved |-> got.saved,
              result |-> [done |-> TRUE, digest |-> layer.digest,
                          diffID |-> layer.diffID, fromCache |-> TRUE,
                          err |-> ""]]
        ELSE IF stream = NoStream
        THEN [index |-> got.index, files |-> fs, saved |-> got.saved,
              result |-> [NoResult EXCEPT
                             !.done = TRUE,
                             !.err = "failed to get compressed layer"]]
        ELSE LET r == PutF(got.index, fs, layer.digest, layer.diffID, stream,
                           ref, p)
             IN  [index |-> r.index, files |-> r.files,
                  saved |-> got.saved \/ r.saved,
                  result |-> IF r.err # ""
                             THEN [NoResult EXCEPT !.done = TRUE,
                                                   !.err = "failed to cache blob"]
                             ELSE [done |-> TRUE, digest |-> layer.digest,
                                   diffID |-> layer.diffID,
                                   fromCache |-> FALSE, err |-> ""]]

\* downloadSingleBlob on a BlobCache that is not enabled: Exists is false,
\* Compressed() is called, and Put returns nil at once, reading nothing.
downloadSingleBlobNoCache(idx, fs, layer, stream) ==
    [index |-> idx, files |-> fs, saved |-> FALSE,
     result |-> IF stream = NoStream
                THEN [NoResult EXCEPT
                         !.done = TRUE,
                         !.err = "failed to get compressed layer"]
                ELSE [done |-> TRUE, digest |-> layer.digest,
                      diffID |-> layer.diffID, fromCache |-> FALSE,
                      err |-> ""]]

\* A worker that puts its result in the first free slot, not in its own.
StoreResult_FirstFree(results, i, result) ==
    LET free == CHOOSE k \in DOMAIN results :
                    ~results[k].done /\ \A j \in 1 .. (k - 1) : results[j].done
    IN  [results EXCEPT ![free] = result]

\* results[index] = result
StoreResult(results, i, result) == [results EXCEPT ![i] = result]

\* The workers holding a slot of sem.
Running == save.started \ save.finished

\* A semaphore that never blocks.
SemFree_Always(running, capacity) == TRUE

\* sem <- struct{}{} can proceed.
SemFree(running, capacity) == Cardinality(running) < capacity

\* The start of the worker for the layer at index i: a slot of sem is taken
\* and ctx.Done() is polled once; a cancelled context ends the worker with
\* ctx.Err() as its result.
WorkerStart(i) ==
    /\ save.pc = "download"
    /\ i \in DOMAIN save.results
    /\ i \notin save.started \cup save.finished
    /\ SemFree(Running, EffectiveConcurrency(save.maxConcurrency))
    /\ IF save.cancelled
       THEN save' = [save EXCEPT
                        !.results = StoreResult(@, i,
                            [NoResult EXCEPT !.done = TRUE,
                                             !.err = "context canceled"]),
                        !.finished = @ \cup {i}]
       ELSE save' = [save EXCEPT !.started = @ \cup {i}]
    /\ UNCHANGED <<now, otherVars, registry, host, bundle, load, rtCalls>>
    /\ UNCHANGED cacheVars

\* The caller cancels ctx while the downloader is waiting for its workers.
Cancel ==
    /\ save.pc = "download"
    /\ ~save.cancelled
    /\ \E i \in DOMAIN save.results : ~save.results[i].done
    /\ save' = [save EXCEPT !.cancelled = TRUE,
                            !.cachedAtCancel = DOMAIN index[SaveProc]]
    /\ UNCHANGED <<now, otherVars, registry, host, bundle, load, rtCalls>>
    /\ UNCHANGED cacheVars

\* f with x mapped to v.
Mapped(f, x, v) == [y \in DOMAIN f \cup {x} |-> IF y = x THEN v ELSE f[y]]

\* The worker for the layer at index i past its ctx.Done() check:
\* downloadSingleBlob and the result stored at the worker's own index; when
\* the progress is followed, the counter is incremented under mu and read into
\* current, else the worker ends here.
DownloadLayer(i, stream) ==
    /\ save.pc = "download"
    /\ i \in save.started
    /\ ~save.results[i].done
    /\ LET r == IF save.useCache
                THEN downloadSingleBlob(index[SaveProc], files,
                                        save.layersToExport[i], stream,
                                        NewRef, SaveProc)
                ELSE downloadSingleBlobNoCache(index[SaveProc], files,
                                               save.layersToExport[i], stream)
           stored == [save EXCEPT
                         !.results = StoreResult(@, i, r.result),
                         !.fetched = IF r.result.fromCache THEN @
                                     ELSE Mapped(@, i, stream)]
       IN  /\ index' = [index EXCEPT ![SaveProc] = r.index]
           /\ indexFile' = IF r.saved THEN r.index ELSE indexFile
           /\ files' = r.files
           /\ save' = IF save.withProgress
                      THEN [stored EXCEPT
                               !.completed = @ + 1,
                               !.current = Mapped(@, i, save.completed + 1)]
                      ELSE [stored EXCEPT !.finished = @ \cup {i}]
    /\ UNCHANGED <<put, ret, now, otherVars, registry, host, bundle, load, rtCalls>>

\* The worker for the layer at index i enters progressCallback with the value
\* it read from the counter.
CallbackBegin(i) ==
    /\ save.pc = "download"
    /\ i \in DOMAIN save.current
    /\ i \notin save.calling \cup save.finished
    /\ save' = [save EXCEPT
                   !.calling = @ \cup {i},
                   !.callbacks = Append(@,
                       [completed |-> save.current[i],
                        total |-> Len(save.layersToExport),
                        currentBlob |-> save.layersToExport[i].digest])]
    /\ UNCHANGED <<now, otherVars, registry, host, bundle, load, rtCalls>>
    /\ UNCHANGED cacheVars

\* progressCallback returns and the worker ends: the slot of sem is released
\* and wg.Done() is called.
CallbackEnd(i) ==
    /\ save.pc = "download"
    /\ i \in save.calling
    /\ save' = [save EXCEPT !.calling = @ \ {i}, !.finished = @ \cup {i}]
    /\ UNCHANGED <<now, otherVars, registry, host, bundle, load, rtCalls>>
    /\ UNCHANGED cacheVars

\* A wait that ends with the first worker.
WaitGroupDone_First(n, finished) == n = 0 \/ finished # {}

\* wg.Wait() returns: every worker has called wg.Done().
WaitGroupDone(n, finished) == finished = 1 .. n

\* The error the downloader returns: that of the first result carrying one.
DownloadError(results) ==
    IF \E i \in DOMAIN results : results[i].err # ""
    THEN "failed to download layer"
    ELSE ""

\* The downloader returns: wg.Wait(), then the loop over results.  The counter,
\* the progress and the streams of the call end with it.
DownloadReturn ==
    /\ save.pc = "download"
    /\ WaitGroupDone(Len(save.layersToExport), save.finished)
    /\ save' = [save EXCEPT !.pc = "downloaded",
                            !.err = DownloadError(save.results),
                            !.fetched = <<>>, !.completed = 0,
                            !.current = <<>>, !.callbacks = <<>>]
    /\ UNCHANGED <<now, otherVars, registry, host, bundle, load, rtCalls>>
    /\ UNCHANGED cacheVars

\* bundle.Metadata as ExportFromRegistry fills it in.  SharedLayerCount is not
\* among the fields it sets, so it keeps Go's zero value.
Metadata(newImg, fullSinceRef, layerInfos) ==
    [version |-> "2", imageRef |-> NewRef, baseRef |-> fullSinceRef,
     sharedLayerCount |-> 0, config |-> ConfigFile(newImg),
     layers |-> layerInfos]

NoMetadata ==
    [version |-> "", imageRef |-> "", baseRef |-> "", sharedLayerCount |-> 0,
     config |-> NilConfig, layers |-> <<>>]

\* Tar entries of a bundle.
MetadataEntry(m) ==
    [name |-> "metadata.json", meta |-> m, hex |-> HexSum(<<>>), data |-> <<>>]

BlobEntry(hex, data) ==
    [name |-> "blobs/sha256/", meta |-> NoMetadata, hex |-> hex, data |-> data]

\* generateFilename: <repo>-<tag>__since-<sinceTag> with the extension of the
\* intermediate archive or of the self-extracting script, inside outDir.
generateFilename(sinceRef, isTarGz) ==
    <<"app-2__since-", IF sinceRef # "" THEN "1" ELSE "none",
      IF isTarGz THEN ".tar.gz" ELSE ".sh">>

\* The steps of packing at which the file system may fail: os.Create of the
\* archive, the write of metadata.json, the copy of a blob, the payload that
\* GenerateBundle prepares before it creates the script, the writes to the
\* script.
PackFaults == {"none", "create", "metadata", "copy", "payload", "script"}

\* What os.Create and the writes that follow leave at a path: nothing when
\* os.Create failed, else the entries written so far.
NoFile == [created |-> FALSE, complete |-> FALSE, entries |-> <<>>]

PartialFile(entries) ==
    [created |-> TRUE, complete |-> FALSE, entries |-> entries]

CompleteFile(entries) ==
    [created |-> TRUE, complete |-> TRUE, entries |-> entries]

\* The directory after os.Create(path) and the writes that made file.
PutFile(dir, path, file) ==
    IF ~file.created THEN dir
    ELSE [x \in DOMAIN dir \cup {path} |-> IF x = path THEN file ELSE dir[x]]

\* os.Remove(path)
RemoveFile(dir, path) == [x \in DOMAIN dir \ {path} |-> dir[x]]

\* createBundleTarGz: os.Create(outputPath), metadata.json, then one
\* blobs/sha256/<hash> entry per download result, read back from the cache.
\* file is what is left at outputPath; err is set when a step fails.
createBundleTarGz(metadata, downloadResults, idx, fs, fault) ==
    LET readable(i) ==
            GetF(idx, fs, downloadResults[i].digest).err = ""
        n == Len(downloadResults)
        blob(i) == BlobEntry(getBlobPath(downloadResults[i].digest),
                             fs[getBlobPath(downloadResults[i].digest)].data)
    IN  IF fault = "create"
        THEN [err |-> "create", file |-> NoFile, index |-> idx,
              saved |-> FALSE, entries |-> <<>>]
        ELSE IF fault = "metadata"
        THEN [err |-> "write", file |-> PartialFile(<<>>), index |-> idx,
              saved |-> FALSE, entries |-> <<>>]
        ELSE IF \E i \in 1 .. n : ~readable(i)
        THEN LET bad == CHOOSE i \in 1 .. n :
                            ~readable(i) /\ \A j \in 1 .. (i - 1) : readable(j)
             IN  [err |-> "failed to read blob from cache",
                  file |-> PartialFile(<<MetadataEntry(metadata)>> \o
                                       [i \in 1 .. (bad - 1) |-> blob(i)]),
                  index |-> GetF(idx, fs, downloadResults[bad].digest).index,
                  saved |-> TRUE, entries |-> <<>>]
        ELSE IF fault = "copy" /\ n > 0
        THEN [err |-> "failed to write blob to tar",
              file |-> PartialFile(<<MetadataEntry(metadata)>>),
              index |-> idx, saved |-> TRUE, entries |-> <<>>]
        ELSE [err |-> "", index |-> idx, saved |-> n > 0,
              file |-> CompleteFile(<<MetadataEntry(metadata)>> \o
                                    [i \in 1 .. n |-> blob(i)]),
              entries |-> <<MetadataEntry(metadata)>> \o
                              [i \in 1 .. n |-> blob(i)]]

\* createBundleTarGz on a BlobCache that is not enabled: Get fails for the
\* first blob with "cache is disabled".
createBundleTarGzNoCache(metadata, downloadResults, idx, fs, fault) ==
    IF fault = "create"
    THEN [err |-> "create", file |-> NoFile, index |-> idx,
          saved |-> FALSE, entries |-> <<>>]
    ELSE IF fault = "metadata"
    THEN [err |-> "write", file |-> PartialFile(<<>>), index |-> idx,
          saved |-> FALSE, entries |-> <<>>]
    ELSE IF Len(downloadResults) > 0
    THEN [err |-> "failed to read blob from cache",
          file |-> PartialFile(<<MetadataEntry(metadata)>>),
          index |-> idx, saved |-> FALSE, entries |-> <<>>]
    ELSE [err |-> "", index |-> idx, saved |-> FALSE,
          file |-> CompleteFile(<<MetadataEntry(metadata)>>),
          entries |-> <<MetadataEntry(metadata)>>]

\* GenerateBundle: the payload is prepared in a temp file, then the script is
\* created at outputPath and the header, the marker and the payload are written
\* to it.
GenerateBundle(imageTarGz, fault) ==
    IF fault = "payload"
    THEN [err |-> "failed to create payload", file |-> NoFile]
    ELSE IF fault = "script"
    THEN [err |-> "failed to write payload", file |-> PartialFile(<<>>)]
    ELSE [err |-> "", file |-> CompleteFile(imageTarGz.entries)]

\* ExportFromRegistry after the downloader returned: its error fails the save;
\* otherwise the metadata is assembled, the archive is packed at tarGzPath and
\* wrapped into the script at bundlePath, and the archive is removed.
SavePack(fault) ==
    /\ save.pc = "downloaded"
    /\ IF save.err # ""
       THEN /\ fault = "none"
            /\ save' = [save EXCEPT !.pc = "failed",
                                    !.err = "failed to download blobs"]
            /\ UNCHANGED <<bundle, index, indexFile>>
       ELSE LET tarGzPath  == generateFilename(save.sinceRef, TRUE)
                bundlePath == generateFilename(save.sinceRef, FALSE)
                metadata == Metadata(registry.new, save.sinceRef,
                                     save.layerInfos)
                packed == IF save.useCache
                          THEN createBundleTarGz(
                                   metadata, save.results, index[SaveProc],
                                   files, fault)
                          ELSE createBundleTarGzNoCache(
                                   metadata, save.results, index[SaveProc],
                                   files, fault)
                withTar == PutFile(save.outDir, tarGzPath, packed.file)
                gen == GenerateBundle(packed.file, fault)
            IN  /\ index' = [index EXCEPT ![SaveProc] = packed.index]
                /\ indexFile' = IF packed.saved THEN packed.index
                                ELSE indexFile
                /\ IF packed.err # ""
                   THEN /\ save' = [save EXCEPT
                               !.pc = "failed",
                               !.err = "failed to create bundle",
                               !.outDir = withTar]
                        /\ UNCHANGED bundle
                   ELSE IF gen.err # ""
                   THEN /\ save' = [save EXCEPT
                               !.pc = "failed",
                               !.err = "failed to create self-extracting bundle",
                               !.outDir = PutFile(withTar, bundlePath, gen.file)]
                        /\ UNCHANGED bundle
                   ELSE /\ save' = [save EXCEPT
                               !.pc = "done",
                               !.outDir = RemoveFile(
                                   PutFile(withTar, bundlePath, gen.file),
                                   tarGzPath)]
                        /\ bundle' = packed.entries
    /\ UNCHANGED <<files, put, ret, now, otherVars, registry, host, load, rtCalls>>

----------------------------------------------------------------------------
(* The bundle loader (BundleLoader.LoadBundle) *)

NoArchive ==
    [config |-> NilConfig, repoTags |-> <<>>, layers |-> <<>>]

NoBaseImageDir == [extracted |-> FALSE, layers |-> <<>>]

\* v1Metadata before imgcd-meta.json is decoded.
NoV1Metadata ==
    [version |-> "", newRef |-> "", sinceRef |-> "", incremental |-> FALSE]

\* No image.tar extracted from a v1 bundle (imageTarPath == "").
NoImageTarPath == [extracted |-> FALSE, archive |-> NoArchive]

\* The temporary directories and files a load creates outside its bundle.
TempPath(kind, n) == [kind |-> kind, n |-> n]

\* os.MkdirTemp("", "imgcd-load-*"): the extracted blobs and image.tar.
BlobTempDir == TempPath("imgcd-load-*", 0)

\* os.MkdirTemp("", "imgcd-base-*"): the unpacked base image.
BaseTempDir == TempPath("imgcd-base-*", 0)

\* os.CreateTemp("", "base-*.tar"): the base image as the runtime saves it.
BaseTarFile == TempPath("base-*.tar", 0)

\* os.MkdirTemp("", "imgcd-new-*"): the unpacked image.tar of a v1 bundle.
NewImageDir == TempPath("imgcd-new-*", 0)

\* os.CreateTemp("", "layer-*.tar"): one decompressed layer.
LayerTempFile(n) == TempPath("layer-*.tar", n)

LoadIdle(pc) ==
    [pc |-> pc, metadata |-> NoMetadata, tempDir |-> <<>>, blobsFound |-> {},
     baseImageDir |-> NoBaseImageDir, imageTar |-> NoArchive, err |-> "",
     errRef |-> "", isV1Format |-> FALSE, v1Meta |-> NoV1Metadata,
     imageTarPath |-> NoImageTarPath, temps |-> {}, deferred |-> {}]

\* Calls of the runtime.Runtime interface.
SaveImageCall(ref) ==
    [op |-> "SaveImage", ref |-> ref, archive |-> NoArchive]

LoadImageFromReaderCall(archive) ==
    [op |-> "LoadImageFromReader", ref |-> "", archive |-> archive]

\* What `docker save` writes for an image: manifest.json lists one layer.tar
\* per layer, in order, each under a directory named after the layer.
SavedImage(img) ==
    [i \in 1 .. Len(img) |->
        [path |-> [dir |-> HexSum(<<"id">> \o img[i])], data |-> img[i],
         src |-> "base"]]

\* A removal that removes nothing.
RemoveTemps_Nothing(temps, paths) == temps

\* os.RemoveAll / os.Remove of temporary paths.
RemoveTemps(temps, paths) == temps \ paths

\* The deferred removals of LoadBundle run when it returns.
RunDeferred(st) ==
    [st EXCEPT !.temps = RemoveTemps(st.temps, st.deferred), !.deferred = {}]

\* LoadBundle returns an error; ref is the image reference its message
\* formats in, if any.
Fail(st, err, ref) ==
    RunDeferred([st EXCEPT !.pc = "failed", !.err = err, !.errRef = ref])

RECURSIVE ReadEntries(_, _)
\* The loop over the tar entries: imgcd-meta.json marks the v1 format and an
\* image.tar after it is extracted; metadata.json is decoded and its version
\* checked; every blobs/sha256/<hash> entry is extracted to the temp directory
\* and recorded in blobsFound; anything else is skipped.
ReadEntries(entries, st) ==
    IF entries = <<>> THEN st
    ELSE LET e == Head(entries)
         IN  IF e.name = "imgcd-meta.json"
             THEN ReadEntries(Tail(entries),
                      [st EXCEPT !.isV1Format = TRUE, !.v1Meta = e.v1])
             ELSE IF e.name = "image.tar" /\ st.isV1Format
             THEN ReadEntries(Tail(entries),
                      [st EXCEPT !.imageTarPath =
                          [extracted |-> TRUE, archive |-> e.archive]])
             ELSE IF e.name = "metadata.json"
             THEN IF e.meta.version # "2"
                  THEN [st EXCEPT !.metadata = e.meta,
                                  !.err = "unsupported bundle version"]
                  ELSE ReadEntries(Tail(entries), [st EXCEPT !.metadata = e.meta])
             ELSE IF e.name = "blobs/sha256/"
             THEN ReadEntries(Tail(entries),
                      [st EXCEPT
                          !.tempDir = [x \in DOMAIN st.tempDir \cup {e.hex} |->
                                          IF x = e.hex THEN e.data
                                          ELSE st.tempDir[x]],
                          !.blobsFound = @ \cup {<<"sha256:", e.hex>>}])
             ELSE ReadEntries(Tail(entries), st)

\* LoadBundle, the temp directory and the extraction loop, then the branch to
\* the v1 loader.
LoadExtract ==
    /\ load.pc = "open"
    /\ save.pc \in {"off", "done"}
    /\ LET st == ReadEntries(bundle,
                     [load EXCEPT !.temps = @ \cup {BlobTempDir},
                                  !.deferred = @ \cup {BlobTempDir}])
       IN  load' = IF st.err # "" THEN Fail(st, st.err, "")
                   ELSE IF st.isV1Format THEN [st EXCEPT !.pc = "v1"]
                   ELSE [st EXCEPT !.pc = "validate"]
    /\ UNCHANGED <<now, otherVars, registry, host, save, bundle, rtCalls>>
    /\ UNCHANGED cacheVars

\* A validation that misses nothing.
MissingBlob_Never(layers, blobsFound) == FALSE

\* Some layer of metadata.Layers has no extracted blob.
MissingBlob(layers, blobsFound) ==
    \E i \in 1 .. Len(layers) : layers[i].digest \notin blobsFound

\* LoadBundle, "Validate we have all required blobs".
LoadValidate ==
    /\ load.pc = "validate"
    /\ IF MissingBlob(load.metadata.layers, load.blobsFound)
       THEN load' = Fail(load, "missing blob", "")
       ELSE load' = [load EXCEPT !.pc = "base"]
    /\ UNCHANGED <<now, otherVars, registry, host, save, bundle, rtCalls>>
    /\ UNCHANGED cacheVars

\* extractBaseImage: a temp directory and a temp tar file are created, the
\* runtime saves the image into the tar file, the tar is unpacked into the
\* directory; the tar file is removed on return, the directory on failure.
extractBaseImage(h, temps) ==
    LET created == temps \cup {BaseTempDir, BaseTarFile}
    IN  IF ~h.hasBase
        THEN [err |-> "failed to save base image", layers |-> <<>>,
              temps |-> RemoveTemps(RemoveTemps(created, {BaseTempDir}),
                                    {BaseTarFile})]
        ELSE [err |-> "", layers |-> SavedImage(h.base),
              temps |-> RemoveTemps(created, {BaseTarFile})]

\* LoadBundle, "For incremental imports, get base image info": with a BaseRef
\* the base image is saved from the runtime and unpacked (extractBaseImage).
LoadBase ==
    /\ load.pc = "base"
    /\ IF load.metadata.baseRef # ""
       THEN /\ rtCalls' = Append(rtCalls, SaveImageCall(load.metadata.baseRef))
            /\ LET r == extractBaseImage(host, load.temps)
               IN  load' =
                     IF r.err # ""
                     THEN Fail([load EXCEPT !.temps = r.temps],
                               "incremental import requires base image",
                               load.metadata.baseRef)
                     ELSE [load EXCEPT
                              !.pc = "rebuild",
                              !.temps = r.temps,
                              !.deferred = @ \cup {BaseTempDir},
                              !.baseImageDir = [extracted |-> TRUE,
                                                layers |-> r.layers]]
       ELSE /\ load' = [load EXCEPT !.pc = "rebuild"]
            /\ UNCHANGED rtCalls
    /\ UNCHANGED <<now, otherVars, registry, host, save, bundle>>
    /\ UNCHANGED cacheVars

\* A decompression that leaves its temp file behind when the copy fails.
CopyFailCleanup_Keep(tempFile) == {tempFile}

\* decompressAndVerify, the failed io.Copy: os.Remove(tempFile.Name()).
CopyFailCleanup(tempFile) == RemoveTemps({tempFile}, {tempFile})

\* decompressAndVerify: the blob is gunzipped into a temp file while the
\* SHA-256 of the uncompressed bytes is computed.  temps are the temp files
\* it leaves when it returns.
decompressAndVerify(blob, tempFile) ==
    IF ~GzipHeaderOk(blob)
    THEN [err |-> "failed to create gzip reader", calculatedDiffID |-> NoDigest,
          data |-> <<>>, temps |-> {}]
    ELSE IF ~GunzipOk(blob)
    THEN [err |-> "failed to decompress", calculatedDiffID |-> NoDigest,
          data |-> <<>>, temps |-> CopyFailCleanup(tempFile)]
    ELSE [err |-> "", calculatedDiffID |-> Sha256(Gunzip(blob)),
          data |-> Gunzip(blob), temps |-> {tempFile}]

\* A loader that accepts whatever diffID it computes.
DiffIDMismatch_Never(calculatedDiffID, declared) == FALSE

\* The comparison of the computed diffID with the one the metadata declares.
DiffIDMismatch(calculatedDiffID, declared) == calculatedDiffID # declared

RECURSIVE ProcessNewLayers(_, _, _)
\* "Process new layers from bundle": each layer of metadata.Layers is
\* decompressed, the removal of its temp file deferred, its diffID compared,
\* and its layer.tar written under the first characters of its diffID.
\* st holds the layers written, the temp files created and those deferred.
ProcessNewLayers(layerInfos, tempDir, st) ==
    IF layerInfos = <<>> THEN [st EXCEPT !.err = ""]
    ELSE LET layerInfo == Head(layerInfos)
             hash      == layerInfo.digest[2]
         IN  IF hash \notin DOMAIN tempDir
             THEN [st EXCEPT !.err = "failed to decompress/verify layer"]
             ELSE LET r == decompressAndVerify(tempDir[hash],
                                               LayerTempFile(Len(layerInfos)))
                      created == [st EXCEPT !.temps = @ \cup r.temps]
                  IN  IF r.err # ""
                      THEN [created EXCEPT
                               !.err = "failed to decompress/verify layer"]
                      ELSE IF DiffIDMismatch(r.calculatedDiffID, layerInfo.diffID)
                      THEN [created EXCEPT !.err = "DiffID mismatch",
                                           !.deferred = @ \cup r.temps]
                      ELSE ProcessNewLayers(Tail(layerInfos), tempDir,
                               [created EXCEPT
                                   !.deferred = @ \cup r.temps,
                                   !.written = Append(@,
                                       [path |-> [dir |-> layerInfo.diffID[2]],
                                        data |-> r.data, src |-> "bundle"])])

\* rebuildImageTar: the image.tar written from the metadata, the extracted
\* blobs and, for an incremental bundle, the extracted base image.  temps are
\* the layer temp files left once its deferred removals have run.
rebuildImageTar(tempDir, metadata, baseImageDir) ==
    IF metadata.config.isNil
    THEN [err |-> "metadata.Config is nil", archive |-> NoArchive, temps |-> {}]
    ELSE IF Len(metadata.config.diff_ids) = 0
    THEN [err |-> "metadata.Config.RootFS.DiffIDs is empty",
          archive |-> NoArchive, temps |-> {}]
    ELSE IF /\ baseImageDir.extracted
            /\ metadata.sharedLayerCount > 0
            /\ metadata.sharedLayerCount > Len(baseImageDir.layers)
    THEN [err |-> "base image has too few layers", archive |-> NoArchive,
          temps |-> {}]
    ELSE LET baseWritten ==
                 IF baseImageDir.extracted /\ metadata.sharedLayerCount > 0
                 THEN SubSeq(baseImageDir.layers, 1, metadata.sharedLayerCount)
                 ELSE <<>>
             r == ProcessNewLayers(metadata.layers, tempDir,
                      [err |-> "", written |-> baseWritten, temps |-> {},
                       deferred |-> {}])
             left == RemoveTemps(r.temps, r.deferred)
         IN  IF r.err # ""
             THEN [err |-> r.err, archive |-> NoArchive, temps |-> left]
             ELSE IF Len(r.written) = 0
             THEN [err |-> "no layers written to image.tar",
                   archive |-> NoArchive, temps |-> left]
             ELSE [err |-> "", temps |-> left,
                   archive |-> [config |-> metadata.config,
                                repoTags |-> <<metadata.imageRef>>,
                                layers |-> r.written]]

\* LoadBundle, "Reconstruct Docker image.tar".
LoadRebuild ==
    /\ load.pc = "rebuild"
    /\ LET r == rebuildImageTar(load.tempDir, load.metadata, load.baseImageDir)
           st == [load EXCEPT !.temps = @ \cup r.temps]
       IN  load' = IF r.err # ""
                   THEN Fail(st, "failed to rebuild image.tar", "")
                   ELSE [st EXCEPT !.pc = "runtime", !.imageTar = r.archive]
    /\ UNCHANGED <<now, otherVars, registry, host, save, bundle, rtCalls>>
    /\ UNCHANGED cacheVars

\* "Load into runtime", of LoadBundle and of loadV1Bundle: the runtime takes
\* the archive or refuses it.
LoadRuntime(accepted) ==
    /\ load.pc = "runtime"
    /\ rtCalls' = Append(rtCalls, LoadImageFromReaderCall(load.imageTar))
    /\ load' = IF accepted THEN RunDeferred([load EXCEPT !.pc = "done"])
               ELSE Fail(load, "failed to load image", "")
    /\ UNCHANGED <<now, otherVars, registry, host, save, bundle>>
    /\ UNCHANGED cacheVars

LoadNext ==
    \/ LoadExtract
    \/ LoadValidate
    \/ LoadBase
    \/ LoadRebuild
    \/ \E accepted \in BOOLEAN : LoadRuntime(accepted)

----------------------------------------------------------------------------
(* The legacy loader (BundleLoader.loadV1Bundle) *)

\* A v1 loader that takes every bundle for an incremental one.
V1LoadsDirectly_Never(meta) == FALSE

\* loadV1Bundle, "Non-incremental: load directly".
V1LoadsDirectly(meta) == ~meta.incremental \/ meta.sinceRef = ""

\* loadV1Bundle up to its branch: without an extracted image.tar it fails; a
\* bundle that is not incremental, or names no since_ref, has its image.tar
\* loaded as it is.
LoadV1Start ==
    /\ load.pc = "v1"
    /\ load' =
         IF ~load.imageTarPath.extracted
         THEN Fail(load, "image.tar not found in v1 bundle", "")
         ELSE IF V1LoadsDirectly(load.v1Meta)
         THEN [load EXCEPT !.pc = "runtime",
                           !.imageTar = load.imageTarPath.archive]
         ELSE [load EXCEPT !.pc = "v1base"]
    /\ UNCHANGED <<now, otherVars, registry, host, save, bundle, rtCalls>>
    /\ UNCHANGED cacheVars

\* loadV1Bundle, "Export base image to temp directory".
LoadV1Base ==
    /\ load.pc = "v1base"
    /\ rtCalls' = Append(rtCalls, SaveImageCall(load.v1Meta.sinceRef))
    /\ LET r == extractBaseImage(host, load.temps)
       IN  load' =
             IF r.err # ""
             THEN Fail([load EXCEPT !.temps = r.temps],
                       "incremental import requires base image",
                       load.v1Meta.sinceRef)
             ELSE [load EXCEPT
                      !.pc = "v1merge",
                      !.temps = r.temps,
                      !.deferred = @ \cup {BaseTempDir},
                      !.baseImageDir = [extracted |-> TRUE,
                                        layers |-> r.layers]]
    /\ UNCHANGED <<now, otherVars, registry, host, save, bundle>>
    /\ UNCHANGED cacheVars

\* mergeV1Layers: the number of shared layers is what the new config lists
\* beyond the new image.tar's layers; that many base layers, as far as the
\* base has them, are copied before the new layers.
mergeV1Layers(baseLayers, newImage, imageRef) ==
    LET newConfig == newImage.config
        newLayers == newImage.layers
        sharedLayerCount ==
            IF Len(newConfig.diff_ids) < Len(newLayers) THEN 0
            ELSE Len(newConfig.diff_ids) - Len(newLayers)
        copied == IF sharedLayerCount < Len(baseLayers)
                  THEN sharedLayerCount ELSE Len(baseLayers)
        allLayerPaths == SubSeq(baseLayers, 1, copied) \o newLayers
    IN  IF Len(allLayerPaths) = 0
        THEN [err |-> "no layers to write", archive |-> NoArchive]
        ELSE [err |-> "",
              archive |-> [config |-> newConfig, repoTags |-> <<imageRef>>,
                           layers |-> allLayerPaths]]

\* loadV1Bundle, "Extract new image.tar to temp directory" and "Merge and
\* rebuild".
LoadV1Merge ==
    /\ load.pc = "v1merge"
    /\ LET st == [load EXCEPT !.temps = @ \cup {NewImageDir},
                              !.deferred = @ \cup {NewImageDir}]
           r  == mergeV1Layers(load.baseImageDir.layers,
                               load.imageTarPath.archive, load.v1Meta.newRef)
       IN  load' = IF r.err # ""
                   THEN Fail(st, "failed to merge layers", "")
                   ELSE [st EXCEPT !.pc = "runtime", !.imageTar = r.archive]
    /\ UNCHANGED <<now, otherVars, registry, host, save, bundle, rtCalls>>
    /\ UNCHANGED cacheVars

LoadV1Next ==
    \/ LoadV1Start
    \/ LoadV1Base
    \/ LoadV1Merge

----------------------------------------------------------------------------
(* Save on one host, load on another *)

Images == SeqsUpTo(LayerTars, MaxLayers) \ {<<>>}

\* The cache is cold; the registry holds a new and a base image; the loading
\* host holds the base image or does not.
Init ==
    /\ index = [p \in Procs |-> <<>>]
    /\ indexFile = <<>>
    /\ files = <<>>
    /\ put = [p \in Procs |-> IdlePut]
    /\ ret = NoRet
    /\ registry \in [new : Images, base : Images]
    /\ host \in {[hasBase |-> FALSE, base |-> <<>>],
                 [hasBase |-> TRUE, base |-> registry.base]}
    /\ save = SaveIdle
    /\ bundle = <<>>
    /\ load = LoadIdle("open")
    /\ rtCalls = <<>>
    /\ now = 0
    /\ compare = Off
    /\ ob = Off
    /\ fn = Off

\* What the registry sends for a layer: its blob or other bytes; once ctx is
\* cancelled the request fails, at Compressed() or in the middle of the body.
StreamsFor(layer) ==
    IF save.cancelled THEN {NoStream, Broken(layer.blob, 2)}
    ELSE {layer.blob, Junk}

SaveNext ==
    \/ \E sinceRef \in {"", BaseRef} : SaveStart(sinceRef)
    \/ \E i \in 1 .. MaxLayers : WorkerStart(i)
    \/ Cancel
    \/ DownloadReturn
    \/ \E i \in 1 .. MaxLayers :
          /\ i \in DOMAIN save.layersToExport
          /\ \E stream \in StreamsFor(save.layersToExport[i]) :
                 DownloadLayer(i, stream)
    \/ \E fault \in PackFaults : SavePack(fault)

Next == SaveNext \/ LoadNext

\* The same with a RemoteExporter made with useCache = false (--no-cache).
NoCacheInit ==
    /\ index = [p \in Procs |-> <<>>]
    /\ indexFile = <<>>
    /\ files = <<>>
    /\ put = [p \in Procs |-> IdlePut]
    /\ ret = NoRet
    /\ registry \in [new : Images, base : Images]
    /\ host = [hasBase |-> FALSE, base |-> <<>>]
    /\ save = [SaveIdle EXCEPT !.useCache = FALSE]
    /\ bundle = <<>>
    /\ load = Off
    /\ rtCalls = <<>>
    /\ now = 0
    /\ compare = Off
    /\ ob = Off
    /\ fn = Off

SpecNoCache == NoCacheInit /\ [][SaveNext]_vars

Spec == Init /\ [][Next]_vars

----------------------------------------------------------------------------
(* Load of any v2 bundle on any host *)

\* The layer entries a bundle's metadata may declare: any digest with any
\* diffID.
DeclaredLayers ==
    {[digest |-> Sha256(Gzip(t, "fast")), diffID |-> Sha256(u)] :
        t \in Tars, u \in Tars}

DeclaredConfigs ==
    {NilConfig} \cup
    {[isNil |-> FALSE, diff_ids |-> ds] :
        ds \in SeqsUpTo({Sha256(t) : t \in Tars}, MaxLayers)}

BundleMetadatas ==
    [version : {"2"}, imageRef : {NewRef}, baseRef : {"", BaseRef},
     sharedLayerCount : 0 .. MaxLayers, config : DeclaredConfigs,
     layers : SeqsUpTo(DeclaredLayers, MaxLayers)]
    \cup {[NoMetadata EXCEPT !.version = "3"]}

\* The blob entries of a bundle: for each digest no entry, an entry with the
\* blob, or an entry with damaged bytes.  The two tars are interchangeable, so
\* each kind of damage is given to one of them: other bytes under the first
\* digest, the blob cut short under the second.
BlobEntriesFor(t) ==
    {<<>>, <<BlobEntry(HexSum(Gzip(t, "fast")), Gzip(t, "fast"))>>,
     <<BlobEntry(HexSum(Gzip(t, "fast")),
                 IF t = <<"t1">> THEN Junk ELSE Truncated(Gzip(t, "fast")))>>}

BundleBlobs ==
    {a \o b : a \in BlobEntriesFor(<<"t1">>), b \in BlobEntriesFor(<<"t2">>)}

\* Tar entries of a v1 bundle.
V1MetadataEntry(m) == [name |-> "imgcd-meta.json", v1 |-> m]

ImageTarEntry(a) == [name |-> "image.tar", archive |-> a]

V1Metadatas ==
    [version : {"1.0"}, newRef : {NewRef}, sinceRef : {"", BaseRef},
     incremental : BOOLEAN]

\* The image.tar of a v1 bundle: the new image's config and the layers the
\* exporter kept.
V1ImageTars ==
    {[config |-> c, repoTags |-> <<NewRef>>,
      layers |-> [i \in 1 .. Len(ts) |->
                     [path |-> [dir |-> HexSum(<<"id">> \o ts[i])],
                      data |-> ts[i], src |-> "bundle"]]] :
        c \in DeclaredConfigs \ {NilConfig}, ts \in SeqsUpTo(Tars, MaxLayers)}

\* v1 bundles: imgcd-meta.json alone, followed by image.tar, or preceded by it.
V1Bundles ==
    {<<V1MetadataEntry(m)>> : m \in V1Metadatas}
    \cup {<<V1MetadataEntry(m), ImageTarEntry(a)>> :
             m \in V1Metadatas, a \in V1ImageTars}
    \cup {<<ImageTarEntry(a), V1MetadataEntry(m)>> :
             m \in V1Metadatas, a \in V1ImageTars}

Bundles ==
    {<<MetadataEntry(m)>> \o bs : m \in BundleMetadatas, bs \in BundleBlobs}
    \cup BundleBlobs
    \cup V1Bundles

\* What the host's runtime holds under the base reference.
Hosts ==
    {[hasBase |-> FALSE, base |-> <<>>]} \cup
    {[hasBase |-> TRUE, base |-> img] : img \in SeqsUpTo(Tars, MaxLayers)}

\* A bundle names a base reference when its metadata does; a host is told
\* apart by its base image only for such a bundle.
NamesBase(b) ==
    \E i \in 1 .. Len(b) :
        \/ b[i].name = "metadata.json" /\ b[i].meta.baseRef # ""
        \/ b[i].name = "imgcd-meta.json" /\ b[i].v1.sinceRef # ""

LoadInit ==
    /\ index = [p \in Procs |-> <<>>]
    /\ indexFile = <<>>
    /\ files = <<>>
    /\ put = [p \in Procs |-> IdlePut]
    /\ ret = NoRet
    /\ registry = [new |-> <<>>, base |-> <<>>]
    /\ save = [pc |-> "off"]
    /\ bundle \in Bundles
    /\ host \in IF NamesBase(bundle) THEN Hosts
                ELSE {[hasBase |-> FALSE, base |-> <<>>]}
    /\ load = LoadIdle("open")
    /\ rtCalls = <<>>
    /\ now = 0
    /\ compare = Off
    /\ ob = Off
    /\ fn = Off

LoadAnyNext == LoadNext \/ LoadV1Next

SpecLoad == LoadInit /\ [][LoadAnyNext]_vars

----------------------------------------------------------------------------
(* Claims about the save flow and the loader *)

\* The metadata a bundle carries (NoMetadata when it has no metadata.json).
MetadataOf(b) ==
    IF \E i \in 1 .. Len(b) : b[i].name = "metadata.json"
    THEN b[CHOOSE i \in 1 .. Len(b) :
              /\ b[i].name = "metadata.json"
              /\ \A j \in (i + 1) .. Len(b) : b[j].name # "metadata.json"].meta
    ELSE NoMetadata

\* A v2 bundle: a metadata.json and no imgcd-meta.json.
IsV2Bundle(b) ==
    /\ \E i \in 1 .. Len(b) : b[i].name = "metadata.json"
    /\ \A i \in 1 .. Len(b) : b[i].name # "imgcd-meta.json"

IsV1Bundle(b) == \E i \in 1 .. Len(b) : b[i].name = "imgcd-meta.json"

\* The digests of the blobs/sha256/<hex> entries of a bundle.
BlobDigestsOf(b) ==
    {<<"sha256:", b[i].hex>> : i \in {j \in 1 .. Len(b) : b[j].name = "blobs/sha256/"}}

\* The bytes the bundle carries under a digest (the last such entry).
BlobOf(b, d) ==
    b[CHOOSE i \in 1 .. Len(b) :
         /\ b[i].name = "blobs/sha256/" /\ b[i].hex = d[2]
         /\ \A j \in (i + 1) .. Len(b) :
               ~(b[j].name = "blobs/sha256/" /\ b[j].hex = d[2])].data

DiffIDsOf(img) == ConfigFile(img).diff_ids

\* The length of the longest common prefix of two diffID chains.
SharedPrefixLength(newImg, baseImg) ==
    LET m == IF Len(newImg) < Len(baseImg) THEN Len(newImg) ELSE Len(baseImg)
        agree(k) == \A i \in 1 .. k : DiffIDsOf(newImg)[i] = DiffIDsOf(baseImg)[i]
    IN  CHOOSE k \in 0 .. m : agree(k) /\ \A j \in (k + 1) .. m : ~agree(j)

\* The archives handed to the runtime's LoadImageFromReader, in order.
Loaded == SelectSeq(rtCalls, LAMBDA c : c.op = "LoadImageFromReader")

\* The i-th layer a manifest lists holds the tar whose diffID is the i-th of ds.
LayersMatch(archive, ds) ==
    /\ Len(archive.layers) = Len(ds)
    /\ \A i \in 1 .. Len(ds) : Sha256(archive.layers[i].data) = ds[i]

\* C3: every bundle the save flow writes has
\* sharedLayerCount + len(metadata.layers) = len(config.rootfs.diff_ids).
C3_SharedPlusBundledIsChain ==
    save.pc = "done" =>
        LET m == MetadataOf(bundle)
        IN  m.sharedLayerCount + Len(m.layers) = Len(m.config.diff_ids)

\* C4: after an incremental save against a base sharing a prefix of k >= 1
\* layers, a load on a host that holds the base hands the runtime an archive
\* with the new image's config and all n layers, diffIDs matching the config.
C4_IncrementalReconstruction ==
    (/\ save.pc = "done" /\ save.sinceRef # "" /\ host.hasBase
     /\ SharedPrefixLength(registry.new, registry.base) >= 1)
    => \A i \in 1 .. Len(Loaded) :
          /\ Loaded[i].archive.config = ConfigFile(registry.new)
          /\ LayersMatch(Loaded[i].archive, DiffIDsOf(registry.new))

\* C5: after a full save (no sinceRef) the load fails only if the runtime
\* refuses the archive, and the archive it hands over lists the source image's
\* n layers in order, with the source image's config.
C5_FullRoundTrip ==
    (save.pc = "done" /\ save.sinceRef = "")
    => /\ load.pc = "failed" => load.err = "failed to load image"
       /\ \A i \in 1 .. Len(Loaded) :
             /\ Loaded[i].archive.config = ConfigFile(registry.new)
             /\ LayersMatch(Loaded[i].archive, DiffIDsOf(registry.new))

\* C5, its case: a full save of an image of two different layers was loaded.
C5_Witness ==
    /\ save.pc = "done" /\ save.sinceRef = ""
    /\ Len(registry.new) >= 2 /\ registry.new[1] # registry.new[2]
    /\ load.pc = "done" /\ Len(Loaded) = 1

\* Every layer of the new image has its diffID among the base image's.
AllShared ==
    \A i \in 1 .. Len(registry.new) :
        \E j \in 1 .. Len(registry.base) :
            DiffIDsOf(registry.new)[i] = DiffIDsOf(registry.base)[j]

\* C6: when every layer is shared with the base, the bundle is a full export
\* (all N layers in metadata.layers, sharedLayerCount 0, all N blobs) and loads
\* on a host that does not hold the base.
C6_AllSharedFallsBackToFull ==
    (save.pc = "done" /\ save.sinceRef # "" /\ AllShared)
    => LET m == MetadataOf(bundle)
       IN  /\ m.sharedLayerCount = 0
           /\ m.layers = [i \in 1 .. Len(registry.new) |->
                             LayerInfo(Layers(registry.new)[i])]
           /\ BlobDigestsOf(bundle) =
                 {Layers(registry.new)[i].digest : i \in 1 .. Len(registry.new)}
           /\ (~host.hasBase /\ load.pc = "failed")
                 => load.err = "failed to load image"

\* C7: the blob entries of a saved bundle are exactly the digests of
\* metadata.layers.
C7_BlobsAreMetadataLayers ==
    save.pc = "done" =>
        LET m == MetadataOf(bundle)
        IN  BlobDigestsOf(bundle) = {m.layers[i].digest : i \in 1 .. Len(m.layers)}

\* C8: in an incremental save, a layer whose diffID occurs in the base but
\* that comes after a NEW layer of the new image is in the bundle's layers and
\* blobs.
C8_SharedAfterNewIsSent ==
    (save.pc = "done" /\ save.sinceRef # "")
    => LET m       == MetadataOf(bundle)
           new     == Layers(registry.new)
           inBase(i) == \E j \in 1 .. Len(registry.base) :
                            new[i].diffID = DiffIDsOf(registry.base)[j]
       IN  \A i \in 1 .. Len(new) :
              (inBase(i) /\ \E j \in 1 .. (i - 1) : ~inBase(j))
              => /\ \E x \in 1 .. Len(m.layers) : m.layers[x].diffID = new[i].diffID
                 /\ new[i].digest \in BlobDigestsOf(bundle)

\* The layers of the bundle's metadata whose blob decompresses to another
\* diffID than the declared one.
MismatchedLayers(b) ==
    LET m == MetadataOf(b)
    IN  {i \in 1 .. Len(m.layers) :
            /\ m.layers[i].digest \in BlobDigestsOf(b)
            /\ GunzipOk(BlobOf(b, m.layers[i].digest))
            /\ Sha256(Gunzip(BlobOf(b, m.layers[i].digest))) # m.layers[i].diffID}

\* C9: a load of a v2 bundle calls the runtime's LoadImageFromReader at most
\* once, and only for a bundle whose metadata version is "2", whose declared
\* layers all have their blob, and whose blobs all decompress to the declared
\* diffID; a bundle with a layer of another diffID is never handed over and
\* its load does not succeed.
C9_RuntimeLoadOnlyAfterVerification ==
    LET m == MetadataOf(bundle)
    IN  IsV2Bundle(bundle) =>
        /\ Len(Loaded) <= 1
        /\ Len(Loaded) = 1 =>
              /\ m.version = "2"
              /\ \A i \in 1 .. Len(m.layers) :
                    /\ m.layers[i].digest \in BlobDigestsOf(bundle)
                    /\ GunzipOk(BlobOf(bundle, m.layers[i].digest))
                    /\ Sha256(Gunzip(BlobOf(bundle, m.layers[i].digest)))
                          = m.layers[i].diffID
        /\ MismatchedLayers(bundle) # {} => (Loaded = <<>> /\ load.pc # "done")

\* C9, its case: an incremental bundle of two layers passed every check and
\* was handed to the runtime.
C9_Witness ==
    /\ Len(Loaded) = 1 /\ load.pc = "done"
    /\ Len(load.metadata.layers) = 2
    /\ load.metadata.layers[1] # load.metadata.layers[2]
    /\ load.baseImageDir.extracted

\* C10: every archive handed to the runtime lists len(config.rootfs.diff_ids)
\* layers, the first sharedLayerCount from the base and the rest from the
\* bundle, the i-th with diffID config.rootfs.diff_ids[i].
C10_ManifestIsConfigChain ==
    IsV2Bundle(bundle) =>
    \A c \in 1 .. Len(Loaded) :
        LET a == Loaded[c].archive
            k == MetadataOf(bundle).sharedLayerCount
        IN  /\ LayersMatch(a, a.config.diff_ids)
            /\ \A i \in 1 .. Len(a.layers) :
                  a.layers[i].src = IF i <= k THEN "base" ELSE "bundle"

----------------------------------------------------------------------------
(* Claims about the loader's failure paths and the legacy format *)

\* The imgcd-meta.json of a v1 bundle.
V1MetaOf(b) ==
    b[CHOOSE i \in 1 .. Len(b) : b[i].name = "imgcd-meta.json"].v1

\* The positions of the image.tar entries that follow the imgcd-meta.json.
InlineTars(b) ==
    {j \in 1 .. Len(b) :
        /\ b[j].name = "image.tar"
        /\ \E i \in 1 .. (j - 1) : b[i].name = "imgcd-meta.json"}

InlineImageTar(b) == b[CHOOSE j \in InlineTars(b) : TRUE].archive

SaveCalls == SelectSeq(rtCalls, LAMBDA c : c.op = "SaveImage")

\* Some layer the metadata lists has no blob entry in the bundle.
LacksBlob(b) ==
    \E i \in 1 .. Len(MetadataOf(b).layers) :
        MetadataOf(b).layers[i].digest \notin BlobDigestsOf(b)

\* C11: a v2 bundle with sharedLayerCount > 0 that names a base, loaded on a
\* host whose runtime cannot save the base or whose base has fewer than
\* sharedLayerCount layers, is never handed to the runtime, and its load
\* fails with an error that names baseRef.
C11_NoUsableBaseNamesBaseRef ==
    LET m == MetadataOf(bundle)
    IN  (/\ IsV2Bundle(bundle) /\ m.version = "2"
         /\ m.sharedLayerCount > 0 /\ m.baseRef # ""
         /\ ~m.config.isNil /\ Len(m.config.diff_ids) > 0
         /\ ~LacksBlob(bundle)
         /\ (~host.hasBase \/ Len(host.base) < m.sharedLayerCount))
        => /\ Loaded = <<>>
           /\ load.pc # "done"
           /\ load.pc = "failed" => load.errRef = m.baseRef

\* C12: the load of a v2 bundle whose metadata lists a digest without a blob
\* entry fails with the missing-blob error, before the base image is asked
\* for, before any archive is rebuilt and without any call of the runtime.
C12_MissingBlobFailsFirst ==
    (IsV2Bundle(bundle) /\ MetadataOf(bundle).version = "2" /\ LacksBlob(bundle))
    => /\ rtCalls = <<>>
       /\ load.pc \in {"open", "validate", "failed"}
       /\ load.pc = "failed" => load.err = "missing blob"
       /\ ~load.baseImageDir.extracted
       /\ load.imageTar = NoArchive

\* C12, its case: a bundle that names a base the host holds, and lists two
\* layers of which one has no blob, was refused.
C12_Witness ==
    /\ IsV2Bundle(bundle) /\ LacksBlob(bundle)
    /\ Len(MetadataOf(bundle).layers) = 2
    /\ BlobDigestsOf(bundle) # {}
    /\ MetadataOf(bundle).baseRef # "" /\ host.hasBase
    /\ load.pc = "failed" /\ load.err = "missing blob"

\* C13: the load of a v2 bundle that holds a blob entry whose digest the
\* metadata does not list fails: no archive is handed to the runtime.
C13_ExtraBlobRejected ==
    LET m == MetadataOf(bundle)
    IN  (/\ IsV2Bundle(bundle) /\ m.version = "2"
         /\ \E d \in BlobDigestsOf(bundle) :
               \A i \in 1 .. Len(m.layers) : m.layers[i].digest # d)
        => Loaded = <<>> /\ load.pc # "done"

\* C14: for a v1 bundle that is not incremental or names no since_ref, with
\* its image.tar after imgcd-meta.json, the runtime's load is called exactly
\* once, with the inline image.tar, and the runtime's save never; a v1 bundle
\* without image.tar fails without any call of the runtime.
C14_V1FullLoadsInline ==
    /\ (/\ IsV1Bundle(bundle)
        /\ ~V1MetaOf(bundle).incremental \/ V1MetaOf(bundle).sinceRef = ""
        /\ InlineTars(bundle) # {})
       => /\ SaveCalls = <<>>
          /\ Len(Loaded) <= 1
          /\ \A i \in 1 .. Len(Loaded) :
                Loaded[i].archive = InlineImageTar(bundle)
          /\ load.pc \in {"done", "failed"} => Len(Loaded) = 1
    /\ (/\ IsV1Bundle(bundle)
        /\ \A i \in 1 .. Len(bundle) : bundle[i].name # "image.tar")
       => rtCalls = <<>> /\ load.pc # "done"

\* C14, its case: a v1 bundle marked not incremental, though it names a
\* since_ref, was loaded from its inline image.tar.
C14_Witness ==
    /\ IsV1Bundle(bundle) /\ InlineTars(bundle) # {}
    /\ ~V1MetaOf(bundle).incremental /\ V1MetaOf(bundle).sinceRef # ""
    /\ Len(InlineImageTar(bundle).layers) = 2
    /\ Len(InlineImageTar(bundle).config.diff_ids) = 2
    /\ load.pc = "done" /\ Len(Loaded) = 1

\* C15: for an incremental v1 bundle whose image.tar lists no more layers
\* than its config, the runtime's load is called at most once, after the save
\* of since_ref, with an archive that lists as many layers as the bundled
\* config has diff_ids: base layers first, then the bundle's layers.
C15_V1IncrementalSplices ==
    (/\ IsV1Bundle(bundle) /\ InlineTars(bundle) # {}
     /\ V1MetaOf(bundle).incremental /\ V1MetaOf(bundle).sinceRef # ""
     /\ Len(InlineImageTar(bundle).layers)
           <= Len(InlineImageTar(bundle).config.diff_ids))
    => /\ Len(Loaded) <= 1
       /\ \A c \in 1 .. Len(Loaded) :
             LET a   == Loaded[c].archive
                 new == InlineImageTar(bundle)
                 k   == Len(new.config.diff_ids) - Len(new.layers)
             IN  /\ Len(SaveCalls) = 1
                 /\ SaveCalls[1].ref = V1MetaOf(bundle).sinceRef
                 /\ Len(a.layers) = Len(new.config.diff_ids)
                 /\ \A i \in 1 .. Len(a.layers) :
                       IF i <= k THEN a.layers[i].src = "base"
                       ELSE a.layers[i] = new.layers[i - k]

\* C16: when LoadBundle has returned, with success or with any error, none of
\* the temporary directories and files it created is left.
C16_LoadLeavesNoTemps ==
    load.pc \in {"done", "failed"} => load.temps = {}

\* C16, its case: a load that had unpacked the base image and decompressed a
\* layer failed on a blob that is cut short.
C16_Witness ==
    /\ load.pc = "failed" /\ load.err = "failed to rebuild image.tar"
    /\ load.baseImageDir.extracted
    /\ Len(load.metadata.config.diff_ids) = 2
    /\ Len(load.metadata.layers) = 2
    /\ Sha256(Gunzip(BlobOf(bundle, load.metadata.layers[1].digest)))
          = load.metadata.layers[1].diffID
    /\ GunzipOk(BlobOf(bundle, load.metadata.layers[1].digest))
    /\ LET b == BlobOf(bundle, load.metadata.layers[2].digest)
       IN  GzipHeaderOk(b) /\ ~GunzipOk(b)

----------------------------------------------------------------------------
(* Claims about packing, cancellation and the order of results *)

\* C17: when packing fails at any step (creating the archive, writing
\* metadata.json, reading or copying a blob, wrapping into the script), no
\* file is left in the output directory, and no file there is ever incomplete.
C17_FailedPackLeavesNoFile ==
    /\ save.pc = "failed" => save.outDir = EmptyDir
    /\ \A path \in DOMAIN save.outDir : save.outDir[path].complete

\* Every digest of the saving process's index has a closed blob file whose
\* SHA-256 is the digest.
CacheConsistent ==
    \A d \in DOMAIN index[SaveProc] :
        /\ getBlobPath(d) \in DOMAIN files
        /\ files[getBlobPath(d)].open = {}
        /\ Sha256(files[getBlobPath(d)].data) = d

\* C18: a save whose context was cancelled while blobs were being downloaded
\* ends with an error, leaves no archive and no script in the output
\* directory, leaves every indexed digest with a complete file of that digest,
\* and keeps the blobs that were cached before the cancellation.
C18_CancelledSaveFailsCleanly ==
    save.cancelled /\ save.pc \in {"done", "failed"} =>
        /\ save.pc = "failed"
        /\ save.outDir = EmptyDir
        /\ CacheConsistent
        /\ save.cachedAtCancel \subseteq DOMAIN index[SaveProc]

\* C19: in a written bundle metadata.json is the first entry and the blob
\* entries after it are, in order, the blobs of metadata.layers.
C19_BlobsInMetadataOrder ==
    save.pc = "done" =>
        /\ bundle[1].name = "metadata.json"
        /\ \A i \in 2 .. Len(bundle) : bundle[i].name = "blobs/sha256/"
        /\ [i \in 1 .. (Len(bundle) - 1) |-> bundle[i + 1].hex]
             = [i \in 1 .. Len(bundle[1].meta.layers) |->
                   getBlobPath(bundle[1].meta.layers[i].digest)]

----------------------------------------------------------------------------
(* The downloader on its own: DownloadBlobs and DownloadBlobsWithProgress  *)
(* called with any maxConcurrency on a cold or a warm cache                *)

MaxWorkers == 3

\* The layers of a call: the two tars in turn.
DownloadLayersOf(n) ==
    [i \in 1 .. n |-> LayerOf(IF i % 2 = 1 THEN <<"t1">> ELSE <<"t2">>)]

\* The cache an earlier save of the base image left: the blob of the first
\* tar, put under the base reference.
WarmCache ==
    PutF(<<>>, <<>>, LayerOf(<<"t1">>).digest, LayerOf(<<"t1">>).diffID,
         LayerOf(<<"t1">>).blob, BaseRef, SaveProc)

\* The calls: up to MaxWorkers layers with and without a progress callback,
\* and one layer more than the default capacity of sem for a maxConcurrency
\* that is not positive.
DownloadCalls ==
    [n : 0 .. MaxWorkers, maxConcurrency : 0 .. 2, withProgress : BOOLEAN,
     warm : BOOLEAN]
    \cup [n : {DefaultConcurrency + 1}, maxConcurrency : {-1, 0},
          withProgress : {FALSE}, warm : {FALSE}]

DownloadInit ==
    /\ now = 0
    /\ compare = Off
    /\ ob = Off
    /\ fn = Off
    /\ \E call \in DownloadCalls :
          /\ index = [p \in Procs |->
                         IF call.warm /\ p = SaveProc THEN WarmCache.index
                         ELSE <<>>]
          /\ indexFile = IF call.warm THEN WarmCache.index ELSE <<>>
          /\ files = IF call.warm THEN WarmCache.files ELSE <<>>
          /\ save = [SaveIdle EXCEPT
                        !.pc = "download",
                        !.layersToExport = DownloadLayersOf(call.n),
                        !.results = [i \in 1 .. call.n |-> NoResult],
                        !.maxConcurrency = call.maxConcurrency,
                        !.withProgress = call.withProgress]
    /\ put = [p \in Procs |-> IdlePut]
    /\ ret = NoRet
    /\ registry = [new |-> <<>>, base |-> <<>>]
    /\ host = [hasBase |-> FALSE, base |-> <<>>]
    /\ bundle = <<>>
    /\ load = [pc |-> "off"]
    /\ rtCalls = <<>>

MaxRuns == 2

\* The same image is saved again by a new process: NewBlobCache reads the
\* index from index.json and the downloader is called with the same layers.
DownloadAgain ==
    /\ save.pc = "downloaded"
    /\ save.err = ""
    /\ save.run < MaxRuns
    /\ index' = [index EXCEPT ![SaveProc] = indexFile]
    /\ save' = [save EXCEPT
                   !.pc = "download",
                   !.results = [i \in DOMAIN @ |-> NoResult],
                   !.started = {}, !.finished = {}, !.cancelled = FALSE,
                   !.cachedAtCancel = {}, !.run = @ + 1]
    /\ UNCHANGED <<indexFile, files, put, ret>>
    /\ UNCHANGED <<now, otherVars, registry, host, bundle, load, rtCalls>>

DownloadNext ==
    \/ \E i \in DOMAIN save.results : WorkerStart(i)
    \/ Cancel
    \/ \E i \in DOMAIN save.results :
          \E stream \in StreamsFor(save.layersToExport[i]) :
              DownloadLayer(i, stream)
    \/ \E i \in DOMAIN save.results : CallbackBegin(i)
    \/ \E i \in DOMAIN save.results : CallbackEnd(i)
    \/ DownloadReturn
    \/ DownloadAgain

SpecDownload == DownloadInit /\ [][DownloadNext]_vars

\* The save flow on a cache whose index still lists the blob of the first tar, put
\* there by an earlier save of the base image, after the blob file was removed
\* from the blobs directory.
StaleInit ==
    /\ now = 0
    /\ index = [p \in Procs |-> IF p = SaveProc THEN WarmCache.index ELSE <<>>]
    /\ indexFile = WarmCache.index
    /\ files = <<>>
    /\ put = [p \in Procs |-> IdlePut]
    /\ ret = NoRet
    /\ registry \in [new : Images, base : {<<<<"t1">>>>}]
    /\ host = [hasBase |-> FALSE, base |-> <<>>]
    /\ save = SaveIdle
    /\ bundle = <<>>
    /\ load = Off
    /\ rtCalls = <<>>
    /\ compare = Off
    /\ ob = Off
    /\ fn = Off

SpecStale == StaleInit /\ [][SaveNext]_vars

----------------------------------------------------------------------------
(* The cache's calls over time: Put, Get, Prune and reopening, by two      *)
(* processes on one cache directory                                        *)

MaxClock == 2

MaxOps == 4

\* The blobs the processes cache; their sizes differ.
OpsBlobs == {Gzip(<<"t1">>, "fast"), Gzip(<<"t2", "t2">>, "fast")}

\* What the last call returned, for every kind of call: n counts the calls,
\* cached tells whether a Put found its digest in the index, read is the number
\* of chunks a Put took from its reader and streamLen the number it was
\* offered, data is what the reader returned by Get yields, removed and
\* bytesFreed are Prune's results for its maxAge.
OpsNoRet ==
    [p |-> 0, op |-> "", digest |-> NoDigest, err |-> "", n |-> 0,
     cached |-> FALSE, read |-> 0, streamLen |-> 0, data |-> <<>>,
     maxAge |-> 0, removed |-> 0, bytesFreed |-> 0]

OpsRet(p, op, d, err) ==
    [OpsNoRet EXCEPT !.p = p, !.op = op, !.digest = d, !.err = err,
                     !.n = ret.n + 1]

\* Put, run to its end under the cache's lock.
OpsPut(p, blob, stream) ==
    /\ ret.n < MaxOps
    /\ LET d == Sha256(blob)
           r == PutF(index[p], files, d, Sha256(Gunzip(blob)), stream,
                     imageRefOf(p), p)
       IN  /\ index' = [index EXCEPT ![p] = r.index]
           /\ indexFile' = IF r.saved THEN r.index ELSE indexFile
           /\ files' = r.files
           /\ ret' = [OpsRet(p, "Put", d, r.err) EXCEPT
                         !.cached = d \in DOMAIN index[p],
                         !.read = r.read, !.streamLen = Len(stream)]
    /\ UNCHANGED put
    /\ UNCHANGED flowVars

\* Get, run to its end under the cache's lock.
OpsGet(p, d) ==
    /\ ret.n < MaxOps
    /\ LET r == GetF(index[p], files, d)
       IN  /\ index' = [index EXCEPT ![p] = r.index]
           /\ indexFile' = IF r.saved THEN r.index ELSE indexFile
           /\ ret' = [OpsRet(p, "Get", d, r.err) EXCEPT
                         !.data = IF r.err = "" THEN files[getBlobPath(d)].data
                                  ELSE <<>>]
    /\ UNCHANGED <<files, put>>
    /\ UNCHANGED flowVars

\* A Prune that also removes the blobs last accessed at the cutoff itself.
Expired_AtCutoff(meta, cutoff) == meta.lastAccess <= cutoff

\* meta.LastAccess.Before(cutoff)
Expired(meta, cutoff) == meta.lastAccess < cutoff

RECURSIVE FreedSpace(_, _)
\* freedSpace += meta.Size over the digests to remove.
FreedSpace(idx, ds) ==
    IF ds = {} THEN 0
    ELSE LET d == CHOOSE x \in ds : TRUE
         IN  idx[d].size + FreedSpace(idx, ds \ {d})

\* Prune as a function of the index and the files.
PruneF(idx, fs, maxAge) ==
    LET cutoff   == now - maxAge
        toRemove == {d \in DOMAIN idx : Expired(idx[d], cutoff)}
    IN  [index |-> [x \in DOMAIN idx \ toRemove |-> idx[x]],
         files |-> [x \in DOMAIN fs \ {getBlobPath(d) : d \in toRemove} |->
                       fs[x]],
         removed |-> Cardinality(toRemove),
         bytesFreed |-> FreedSpace(idx, toRemove)]

\* Prune, run to its end under the cache's lock.
OpsPrune(p, maxAge) ==
    /\ ret.n < MaxOps
    /\ LET r == PruneF(index[p], files, maxAge)
       IN  /\ index' = [index EXCEPT ![p] = r.index]
           /\ indexFile' = r.index
           /\ files' = r.files
           /\ ret' = [OpsRet(p, "Prune", NoDigest, "") EXCEPT
                         !.maxAge = maxAge, !.removed = r.removed,
                         !.bytesFreed = r.bytesFreed]
    /\ UNCHANGED put
    /\ UNCHANGED flowVars

\* Time passes.
Tick ==
    /\ now < MaxClock
    /\ now' = now + 1
    /\ UNCHANGED <<otherVars, registry, host, save, bundle, load, rtCalls>>
    /\ UNCHANGED cacheVars

OpsInit ==
    /\ index = [p \in Procs |-> <<>>]
    /\ indexFile = <<>>
    /\ files = <<>>
    /\ put = [p \in Procs |-> IdlePut]
    /\ ret = OpsNoRet
    /\ registry = [new |-> <<>>, base |-> <<>>]
    /\ host = [hasBase |-> FALSE, base |-> <<>>]
    /\ save = [pc |-> "off"]
    /\ bundle = <<>>
    /\ load = [pc |-> "off"]
    /\ rtCalls = <<>>
    /\ now = 0
    /\ compare = Off
    /\ ob = Off
    /\ fn = Off

OpsNext ==
    \/ \E p \in Procs, b \in OpsBlobs, corrupt \in BOOLEAN :
          OpsPut(p, b, IF corrupt THEN Junk ELSE b)
    \/ \E p \in Procs, b \in OpsBlobs : OpsGet(p, Sha256(b))
    \/ \E p \in Procs, maxAge \in 0 .. 1 : OpsPrune(p, maxAge)
    \/ \E p \in Procs : NewBlobCache(p)
    \/ Tick

SpecCacheOps == OpsInit /\ [][OpsNext]_vars

----------------------------------------------------------------------------
(* Two goroutines of one process putting into its one BlobCache            *)

\* The goroutines: two workers of the downloader of one save.  put[t] is the
\* Put call of goroutine t; the cache is that of the saving process.
Goroutines == {1, 2}

\* Goroutine t calls Put and arrives at bc.mu.Lock().
GoPut(t, blob, stream) ==
    /\ put[t].st = "idle"
    /\ put' = [put EXCEPT ![t] =
                  [st |-> "lock", digest |-> Sha256(blob),
                   diffID |-> NoDigest, ref |-> NewRef, rest |-> stream,
                   hashed |-> <<>>]]
    /\ UNCHANGED <<index, indexFile, files, ret>>
    /\ UNCHANGED flowVars

\* bc.mu is not held by a goroutine other than t.
MutexFree(t) ==
    \A u \in Goroutines \ {t} : put[u].st \notin {"held", "getheld"}

\* bc.mu.Lock() returns in goroutine t.
GoLock(t) ==
    /\ put[t].st = "lock"
    /\ MutexFree(t)
    /\ put' = [put EXCEPT ![t].st = "held"]
    /\ UNCHANGED <<index, indexFile, files, ret>>
    /\ UNCHANGED flowVars

\* One round of io.Copy(file, tee) in goroutine t, which holds bc.mu: a chunk
\* is read from the stream.  No other goroutine gets at the blob file while
\* bc.mu is held, so what is written takes effect with the end of the call.
GoCopy(t) ==
    /\ put[t].st = "held"
    /\ normalizeDigest(put[t].digest) \notin DOMAIN index[SaveProc]
    /\ put[t].rest # <<>>
    /\ put' = [put EXCEPT ![t].rest = Tail(@),
                          ![t].hashed = Append(@, Head(put[t].rest))]
    /\ UNCHANGED <<index, indexFile, files, ret>>
    /\ UNCHANGED flowVars

\* The rest of Put in goroutine t, down to the deferred bc.mu.Unlock(): for a
\* digest in the index the image refs, else the comparison of digests, the
\* index entry and saveIndex.
GoReturn(t) ==
    /\ put[t].st = "held"
    /\ \/ normalizeDigest(put[t].digest) \in DOMAIN index[SaveProc]
       \/ put[t].rest = <<>>
    /\ LET r == PutF(index[SaveProc], files, put[t].digest, put[t].diffID,
                     put[t].hashed \o put[t].rest, put[t].ref, SaveProc)
       IN  /\ index' = [index EXCEPT ![SaveProc] = r.index]
           /\ indexFile' = IF r.saved THEN r.index ELSE indexFile
           /\ files' = r.files
           /\ ret' = [p |-> t, op |-> "Put", digest |-> put[t].digest,
                      err |-> r.err]
    /\ put' = [put EXCEPT ![t] = IdlePut]
    /\ UNCHANGED flowVars

\* Goroutine t calls Get and arrives at bc.mu.Lock().
GoGet(t, digest) ==
    /\ put[t].st = "idle"
    /\ put' = [put EXCEPT ![t] = [IdlePut EXCEPT !.st = "getlock",
                                                 !.digest = digest]]
    /\ UNCHANGED <<index, indexFile, files, ret>>
    /\ UNCHANGED flowVars

\* bc.mu.Lock() returns in goroutine t, which is in Get.
GoGetLock(t) ==
    /\ put[t].st = "getlock"
    /\ MutexFree(t)
    /\ put' = [put EXCEPT ![t].st = "getheld"]
    /\ UNCHANGED <<index, indexFile, files, ret>>
    /\ UNCHANGED flowVars

\* The rest of Get in goroutine t, down to the deferred bc.mu.Unlock(): the
\* index lookup, os.Open, the entry's LastAccess and saveIndex.
GoGetReturn(t) ==
    /\ put[t].st = "getheld"
    /\ LET r == GetF(index[SaveProc], files, put[t].digest)
       IN  /\ index' = [index EXCEPT ![SaveProc] = r.index]
           /\ indexFile' = IF r.saved THEN r.index ELSE indexFile
           /\ ret' = [p |-> t, op |-> "Get", digest |-> put[t].digest,
                      err |-> r.err]
    /\ put' = [put EXCEPT ![t] = IdlePut]
    /\ UNCHANGED files
    /\ UNCHANGED flowVars

GoNext ==
    \/ \E t \in Goroutines, blob \in RegistryBlobs, corrupt \in BOOLEAN :
          GoPut(t, blob, IF corrupt THEN Junk ELSE blob)
    \/ \E t \in Goroutines : GoLock(t)
    \/ \E t \in Goroutines : GoCopy(t)
    \/ \E t \in Goroutines : GoReturn(t)
    \/ \E t \in Goroutines, blob \in RegistryBlobs : GoGet(t, Sha256(blob))
    \/ \E t \in Goroutines : GoGetLock(t)
    \/ \E t \in Goroutines : GoGetReturn(t)

SpecPut == CacheInit /\ [][GoNext]_vars

----------------------------------------------------------------------------
(* Claims about the cache's calls *)

NoDuplicates(refs) ==
    \A i, j \in 1 .. Len(refs) : refs[i] = refs[j] => i = j

\* C26: a Put on a digest that is already in the index leaves the blob files,
\* the entry's size and its diffID as they are, appends the image reference
\* only when it is absent so that no list of image references ever holds a
\* duplicate, sets the entry's lastAccess to the current time, and reads the
\* supplied stream to its end.
C26_PutOnCachedDigest ==
    [][(ret'.n = ret.n + 1 /\ ret'.op = "Put" /\ ret'.cached) =>
          LET p == ret'.p
              d == ret'.digest
          IN  /\ files' = files
              /\ index'[p][d].size = index[p][d].size
              /\ index'[p][d].diffID = index[p][d].diffID
              /\ index'[p][d].refs =
                    IF containsImageRef(index[p][d].refs, imageRefOf(p))
                    THEN index[p][d].refs
                    ELSE Append(index[p][d].refs, imageRefOf(p))
              /\ NoDuplicates(index'[p][d].refs)
              /\ index'[p][d].lastAccess = now
              /\ ret'.read = ret'.streamLen]_vars

\* C27: Get on a digest without an index entry fails and leaves the index as
\* it is; on an entry whose file is missing it fails and removes that entry
\* alone, so that Exists is false afterwards; otherwise it returns a reader of
\* the blob file and sets that entry's lastAccess to the current time, every
\* other entry unchanged.
C27_GetContract ==
    [][(ret'.n = ret.n + 1 /\ ret'.op = "Get") =>
          LET p == ret'.p
              d == ret'.digest
              others == DOMAIN index[p] \ {d}
          IN  IF d \notin DOMAIN index[p]
              THEN ret'.err # "" /\ index' = index
              ELSE /\ \A x \in others :
                        x \in DOMAIN index'[p] /\ index'[p][x] = index[p][x]
                   /\ IF getBlobPath(d) \notin DOMAIN files
                      THEN /\ ret'.err # ""
                           /\ DOMAIN index'[p] = others
                           /\ normalizeDigest(d) \notin DOMAIN index'[p]
                      ELSE /\ ret'.err = ""
                           /\ ret'.data = files[getBlobPath(d)].data
                           /\ DOMAIN index'[p] = DOMAIN index[p]
                           /\ index'[p][d] =
                                 [index[p][d] EXCEPT !.lastAccess = now]]_vars

\* C27, its cases: a Get that found the entry's file gone, beside another
\* entry, and a Get that returned a blob last accessed earlier.
C27_Witness ==
    /\ ret.op = "Get" /\ ret.err = "file not found"
    /\ ret.digest \notin DOMAIN index[ret.p]
    /\ index[ret.p] # <<>>

\* The sum of the recorded sizes of a set of entries.
RECURSIVE TotalSize(_, _)
TotalSize(idx, ds) ==
    IF ds = {} THEN 0
    ELSE LET d == CHOOSE x \in ds : TRUE
         IN  idx[d].size + TotalSize(idx, ds \ {d})

\* C28: Prune(maxAge) removes the entries last accessed before now - maxAge,
\* index entry and blob file, and nothing else; it returns their number and
\* the sum of their sizes.
C28_PruneRemovesExactlyTheOld ==
    [][(ret'.n = ret.n + 1 /\ ret'.op = "Prune") =>
          LET p == ret'.p
              old == {d \in DOMAIN index[p] :
                         index[p][d].lastAccess < now - ret'.maxAge}
              oldFiles == {getBlobPath(d) : d \in old}
          IN  /\ DOMAIN index'[p] = DOMAIN index[p] \ old
              /\ \A d \in DOMAIN index'[p] : index'[p][d] = index[p][d]
              /\ DOMAIN files' = DOMAIN files \ oldFiles
              /\ \A f \in DOMAIN files' : files'[f] = files[f]
              /\ ret'.removed = Cardinality(old)
              /\ ret'.bytesFreed = TotalSize(index[p], old)]_vars

\* C28, its case: a Prune removed one blob and kept another that was last
\* accessed exactly maxAge ago.
C28_Witness ==
    /\ ret.op = "Prune" /\ ret.removed = 1 /\ ret.bytesFreed > 0
    /\ \E d \in DOMAIN index[ret.p] :
          /\ index[ret.p][d].lastAccess = now - ret.maxAge
          /\ getBlobPath(d) \in DOMAIN files

\* C29: a cache opened from index.json holds no entry whose blob file is
\* missing.
C29_OpenDiscardsMissingFiles ==
    [][\A p \in Procs :
          NewBlobCache(p) =>
              \A d \in DOMAIN index'[p] : getBlobPath(d) \in DOMAIN files']_vars

----------------------------------------------------------------------------
(* Claims about the downloader                                             *)

WorkerFailed(i) ==
    \/ i \notin save.started
    \/ /\ i \in DOMAIN save.fetched
       /\ save.fetched[i] # save.layersToExport[i].blob

\* C22: the downloader returns only after every worker has finished; it
\* returns an error exactly when at least one result carries one; and the
\* error of each failed layer is in that layer's own slot of the results.
C22_ReturnsAfterEveryWorker ==
    [][(save.pc = "download" /\ save'.pc = "downloaded") =>
          /\ \A i \in 1 .. Len(save.layersToExport) :
                /\ i \in save.finished
                /\ save.results[i].done
                /\ save.results[i].err # "" <=> WorkerFailed(i)
          /\ Running = {}
          /\ save'.results = save.results
          /\ save'.err # "" <=>
                \E i \in DOMAIN save.results : save.results[i].err # ""]_vars

\* The downloader has returned an error with the first layer downloaded and
\* the second failed.
C22_Witness ==
    /\ save.pc = "downloaded"
    /\ save.err # ""
    /\ Len(save.results) >= 2
    /\ save.results[1].done /\ save.results[1].err = ""
    /\ save.results[2].err # ""

\* C23: once ctx is cancelled, every worker that has not started its download
\* records the context's error as its result without calling the cache or the
\* layer's Compressed(), and the downloader returns an error.
C23_CancelAbortsAndFails ==
    [][save.cancelled =>
          /\ \A i \in DOMAIN save.results :
                (i \notin save.started \cup save.finished
                    /\ i \in save'.finished) =>
                   /\ save'.results[i].err = "context canceled"
                   /\ i \notin save'.started
                   /\ save'.fetched = save.fetched
                   /\ UNCHANGED cacheVars
          /\ (save.pc = "download" /\ save'.pc = "downloaded") =>
                save'.err # ""]_vars

\* C24: the progress callback is invoked once after each layer finishes, no
\* two of its executions overlap, and the completed values it receives are,
\* in the order of the invocations, 1, 2, ..., each with total = len(layers).
C24_ProgressSerializedInOrder ==
    (save.pc = "download" /\ save.withProgress) =>
        /\ Cardinality(save.calling) <= 1
        /\ Len(save.callbacks) =
               Cardinality(save.calling \cup (save.finished \cap save.started))
        /\ \A k \in 1 .. Len(save.callbacks) :
              /\ save.callbacks[k].completed = k
              /\ save.callbacks[k].total = Len(save.layersToExport)

\* The blob of layer is indexed by the cache of the saving process and its
\* file is there.
CachedWithFile(layer) ==
    /\ Exists(SaveProc, layer.digest)
    /\ getBlobPath(normalizeDigest(layer.digest)) \in DOMAIN files

\* C25: a layer whose digest is cached with its file present yields a result
\* with fromCache = true and its Compressed() is never called; so after a
\* successful save the cache holds the blobs of all the layers, and a second
\* save of the same image gets a cache hit for every layer and fetches no
\* blob from the registry.
C25_CacheHitsSkipTheRegistry ==
    [][/\ \A i \in DOMAIN save.results :
             (/\ save.pc = "download"
              /\ i \in save.started
              /\ ~save.results[i].done /\ save'.results[i].done
              /\ CachedWithFile(save.layersToExport[i])) =>
                /\ save'.results[i].fromCache
                /\ save'.results[i].err = ""
                /\ save'.results[i].digest = save.layersToExport[i].digest
                /\ save'.fetched = save.fetched
       /\ (save.pc = "download" /\ save'.pc = "downloaded"
              /\ save'.err = "") =>
             \A i \in DOMAIN save.results :
                /\ CachedWithFile(save.layersToExport[i])
                /\ files[getBlobPath(normalizeDigest(
                       save.layersToExport[i].digest))].data =
                       save.layersToExport[i].blob
       /\ save.run > 1 =>
             /\ save.fetched = <<>>
             /\ \A i \in DOMAIN save.results :
                   (save.results[i].done /\ i \in save.started) =>
                       save.results[i].fromCache]_vars

\* The second save of a two-layer image first saved on a cold cache has
\* returned with a cache hit for both layers.
C25_Witness ==
    /\ save.pc = "downloaded"
    /\ save.run = 2
    /\ Len(save.results) = 2
    /\ \A i \in 1 .. 2 :
          /\ save.results[i].fromCache
          /\ index[SaveProc][normalizeDigest(
                 save.layersToExport[i].digest)].refs = <<NewRef>>

----------------------------------------------------------------------------
(* Claims about concurrent Puts into one cache                             *)

\* Goroutine t is reading its stream into the blob file.
Streaming(t) ==
    /\ put[t].st = "held"
    /\ normalizeDigest(put[t].digest) \notin DOMAIN index[SaveProc]
    /\ put[t].rest # <<>>

\* C30: a Put never waits for the stream of a concurrent Put for a distinct
\* digest to finish, so that the two can stream at the same time; and two
\* Puts for the same digest never run at the same time.
C30_DistinctDigestsStreamTogether ==
    \A t \in Goroutines : \A u \in Goroutines \ {t} :
        /\ (put[t].st = "lock" /\ put[t].digest # put[u].digest) =>
               ~Streaming(u)
        /\ (put[t].st = "held" /\ put[u].st = "held") =>
               put[t].digest # put[u].digest

\* C31: a Get of one digest is never blocked by a concurrent Get of another
\* digest: no Get waits at the lock while a Get of a different digest holds it.
C31_GetsOfDistinctDigestsDoNotBlock ==
    \A t \in Goroutines : \A u \in Goroutines \ {t} :
        (put[t].st = "getlock" /\ put[u].st = "getheld") =>
            put[t].digest = put[u].digest

----------------------------------------------------------------------------
(* The differ (package diff): Compare and its two parallel fetches         *)

MaxDiffLayers == 2

\* The references Compare is called with.
DiffRefs == {"app:1", "app:2"}

\* remote.LayerInfo of the layer with tar t compressed at level lvl.
DiffLayer(t, lvl) ==
    [DiffID |-> Sha256(t), Digest |-> Sha256(Gzip(t, lvl)),
     Size |-> Len(Gzip(t, lvl))]

DiffLayers == {DiffLayer(t, lvl) : t \in Tars, lvl \in {"fast", "best"}}

\* The layer lists an image can have.
DiffLayerLists ==
    UNION {[1 .. n -> DiffLayers] : n \in 0 .. MaxDiffLayers}

\* remote.ImageMetadata as FetchImageMetadata fills it in: Reference is the
\* string it was called with.
ImageMetadata(ref, layers) == [Reference |-> ref, Layers |-> layers]

\* A nil *remote.ImageMetadata.
NilMetadata == [Reference |-> "", Layers |-> <<>>, nil |-> TRUE]

IsNil(m) == "nil" \in DOMAIN m

\* A differ that takes a layer as shared when its compressed digest is that
\* of a base layer.
InBase_ByDigest(layer, baseLayers) ==
    \E j \in 1 .. Len(baseLayers) : baseLayers[j].Digest = layer.Digest

\* baseLayerMap[layer.DiffID.String()]
InBase(layer, baseLayers) ==
    \E j \in 1 .. Len(baseLayers) : baseLayers[j].DiffID = layer.DiffID

\* The LayerDiff of a layer of the new image.
LayerDiffOf(layer, baseLayers) ==
    [DiffID |-> layer.DiffID, Digest |-> layer.Digest, Size |-> layer.Size,
     Status |-> IF InBase(layer, baseLayers) THEN "SHARED" ELSE "NEW"]

\* The entries of diffs with the given status, in order.
RECURSIVE WithStatus(_, _)
WithStatus(diffs, status) ==
    IF diffs = <<>> THEN <<>>
    ELSE IF Head(diffs).Status = status
    THEN <<Head(diffs)>> \o WithStatus(Tail(diffs), status)
    ELSE WithStatus(Tail(diffs), status)

RECURSIVE SumSize(_)
SumSize(diffs) ==
    IF diffs = <<>> THEN 0 ELSE Head(diffs).Size + SumSize(Tail(diffs))

\* Compare from the map of the base image's diffIDs to the DiffResult.
Classify(newImage, baseImage) ==
    LET layerDiffs == [i \in 1 .. Len(newImage.Layers) |->
                          LayerDiffOf(newImage.Layers[i], baseImage.Layers)]
    IN  [NewImage |-> newImage, BaseImage |-> baseImage,
         LayerDiffs |-> layerDiffs,
         NewLayers |-> WithStatus(layerDiffs, "NEW"),
         SharedLayers |-> WithStatus(layerDiffs, "SHARED"),
         NewLayersSize |-> SumSize(WithStatus(layerDiffs, "NEW")),
         SharedLayersSize |-> SumSize(WithStatus(layerDiffs, "SHARED")),
         SavingsSize |-> SumSize(WithStatus(layerDiffs, "SHARED"))]

NoDiffResult == [nil |-> TRUE]

\* Compare is called: the two goroutines are started, each with its fetch
\* ahead, and the caller waits at the channel.
CompareInit ==
    /\ index = [p \in Procs |-> <<>>]
    /\ indexFile = <<>>
    /\ files = <<>>
    /\ put = [p \in Procs |-> IdlePut]
    /\ ret = NoRet
    /\ registry = [new |-> <<>>, base |-> <<>>]
    /\ host = [hasBase |-> FALSE, base |-> <<>>]
    /\ save = Off
    /\ bundle = <<>>
    /\ load = Off
    /\ rtCalls = <<>>
    /\ now = 0
    /\ ob = Off
    /\ fn = Off
    /\ \E newImageRef \in DiffRefs, baseImageRef \in DiffRefs,
          images \in [DiffRefs -> DiffLayerLists] :
          compare = [pc |-> "collect", newImageRef |-> newImageRef,
                     baseImageRef |-> baseImageRef, images |-> images,
                     pending |-> {"new image", "base image"},
                     results |-> <<>>, failed |-> {}, i |-> 0,
                     newImage |-> NilMetadata, baseImage |-> NilMetadata,
                     result |-> NoDiffResult, err |-> ""]

\* The goroutine called name ends its FetchImageMetadata, with or without an
\* error, and sends what it got on the results channel (buffered for two).
FetchDone(name, fails) ==
    /\ compare.pc # "off"
    /\ name \in compare.pending
    /\ LET ref == IF name = "new image" THEN compare.newImageRef
                  ELSE compare.baseImageRef
           sent == [metadata |-> IF fails THEN NilMetadata
                                 ELSE ImageMetadata(ref, compare.images[ref]),
                    err |-> IF fails THEN "fetch failed" ELSE "",
                    name |-> name]
       IN  compare' = [compare EXCEPT
                          !.pending = @ \ {name},
                          !.results = Append(@, sent),
                          !.failed = IF fails THEN @ \cup {name} ELSE @]
    /\ UNCHANGED <<registry, host, save, bundle, load, rtCalls, now, ob, fn>>
    /\ UNCHANGED cacheVars

\* One round of the loop that collects the results: a result is received; an
\* error ends Compare, else the metadata goes to newImage when its Reference
\* is newImageRef and to baseImage otherwise.
Collect ==
    /\ compare.pc = "collect"
    /\ compare.results # <<>>
    /\ LET result == Head(compare.results)
           isNew  == result.metadata.Reference = compare.newImageRef
       IN  compare' =
             IF result.err # ""
             THEN [compare EXCEPT
                      !.pc = "returned", !.results = Tail(@),
                      !.err = "failed to fetch " \o result.name
                                  \o " metadata"]
             ELSE [compare EXCEPT
                      !.pc = IF compare.i = 1 THEN "classify" ELSE "collect",
                      !.results = Tail(@),
                      !.i = @ + 1,
                      !.newImage = IF isNew THEN result.metadata ELSE @,
                      !.baseImage = IF isNew THEN @ ELSE result.metadata]
    /\ UNCHANGED <<registry, host, save, bundle, load, rtCalls, now, ob, fn>>
    /\ UNCHANGED cacheVars

\* After the loop: the base image's diffIDs are put in a map, the new image's
\* layers are classified and the DiffResult is returned.  Reading the layers
\* of an image that was never assigned is a nil pointer dereference.
CompareReturn ==
    /\ compare.pc = "classify"
    /\ compare' =
         IF IsNil(compare.baseImage) \/ IsNil(compare.newImage)
         THEN [compare EXCEPT !.pc = "panicked"]
         ELSE [compare EXCEPT
                  !.pc = "returned",
                  !.result = Classify(compare.newImage, compare.baseImage)]
    /\ UNCHANGED <<registry, host, save, bundle, load, rtCalls, now, ob, fn>>
    /\ UNCHANGED cacheVars

CompareNext ==
    \/ \E name \in {"new image", "base image"}, fails \in BOOLEAN :
          FetchDone(name, fails)
    \/ Collect
    \/ CompareReturn

SpecCompare == CompareInit /\ [][CompareNext]_vars

----------------------------------------------------------------------------
(* Claims about the differ                                                 *)

\* Compare has returned a DiffResult.
Compared == compare.pc = "returned" /\ compare.err = ""

\* The layers the registry serves for the two references of the call.
NewLayersOf == compare.images[compare.newImageRef]

BaseLayersOf == compare.images[compare.baseImageRef]

\* C32: Compare classifies the layers of the new image in their order, a
\* layer being SHARED exactly when its diffID is the diffID of some layer of
\* the base image and NEW otherwise; LayerDiffs has one entry per layer of
\* the new image; compressed digests and sizes play no part.
C32_SharedIffDiffIDInBase ==
    Compared =>
        /\ Len(compare.result.LayerDiffs) = Len(NewLayersOf)
        /\ \A i \in 1 .. Len(NewLayersOf) :
              /\ compare.result.LayerDiffs[i].DiffID = NewLayersOf[i].DiffID
              /\ compare.result.LayerDiffs[i].Status \in {"SHARED", "NEW"}
              /\ compare.result.LayerDiffs[i].Status = "SHARED" <=>
                    \E j \in 1 .. Len(BaseLayersOf) :
                        BaseLayersOf[j].DiffID = NewLayersOf[i].DiffID

\* A NEW layer first and a SHARED layer after it, the shared one compressed
\* otherwise in the base image than in the new one.
C32_Witness ==
    /\ Compared
    /\ Len(compare.result.LayerDiffs) = 2
    /\ compare.result.LayerDiffs[1].Status = "NEW"
    /\ compare.result.LayerDiffs[2].Status = "SHARED"
    /\ \A j \in 1 .. Len(BaseLayersOf) :
          BaseLayersOf[j].Digest # NewLayersOf[2].Digest

\* The largest k such that the first k diffIDs of new and of base are equal
\* pointwise.
CommonPrefixLength(new, base) ==
    LET Agree(k) == \A i \in 1 .. k : new[i].DiffID = base[i].DiffID
        shorter  == IF Len(new) <= Len(base) THEN Len(new) ELSE Len(base)
    IN  CHOOSE k \in 0 .. shorter :
            Agree(k) /\ \A m \in (k + 1) .. shorter : ~Agree(m)

\* C33: the result of Compare carries the shared prefix length: the largest k
\* such that the first k diffIDs of the new image equal the first k diffIDs
\* of the base image pointwise, at most the number of layers of the new image.
C33_ResultCarriesSharedPrefixLength ==
    Compared =>
        /\ "SharedPrefixLength" \in DOMAIN compare.result
        /\ compare.result.SharedPrefixLength =
               CommonPrefixLength(NewLayersOf, BaseLayersOf)
        /\ compare.result.SharedPrefixLength <= Len(NewLayersOf)

\* C34: for every order in which the two fetches complete and every pair of
\* references, the same string twice included, Compare returns: with an error
\* when a fetch failed, and otherwise, both fetches being over, with the
\* classification of the metadata of newImageRef as the new image against
\* that of baseImageRef as the base.
C34_CompareJoinsThenClassifies ==
    /\ compare.pc # "panicked"
    /\ compare.pc = "classify" => compare.pending = {}
    /\ (compare.pc = "returned" /\ compare.err # "") => compare.failed # {}
    /\ Compared =>
          /\ compare.pending = {} /\ compare.failed = {}
          /\ compare.result =
                 Classify(ImageMetadata(compare.newImageRef, NewLayersOf),
                          ImageMetadata(compare.baseImageRef, BaseLayersOf))

----------------------------------------------------------------------------
(* References and bundle file names (parseReference, normalizeSinceRef,    *)
(* generateFilename) on strings, a string being a sequence of characters   *)

MaxRefLen == 5

\* The characters of a reference: two that are neither separator, and the
\* two separators.
RefChars == {"a", "b", ":", "/"}

Separators == {":", "/"}

\* The references given on the command line: no separator at either end and
\* no two in a row.
RefStrings ==
    {s \in UNION {[1 .. n -> RefChars] : n \in 1 .. MaxRefLen} :
        /\ s[1] \notin Separators /\ s[Len(s)] \notin Separators
        /\ \A i \in 1 .. (Len(s) - 1) :
              ~(s[i] \in Separators /\ s[i + 1] \in Separators)}

\* strings.Contains(s, c) for a one-character c.
Contains(s, c) == \E i \in 1 .. Len(s) : s[i] = c

\* strings.Split(s, sep) for a one-character sep.
RECURSIVE Split(_, _)
Split(s, sep) ==
    IF ~Contains(s, sep) THEN <<s>>
    ELSE LET i == CHOOSE k \in 1 .. Len(s) :
                      s[k] = sep /\ \A j \in 1 .. (k - 1) : s[j] # sep
         IN  <<SubSeq(s, 1, i - 1)>> \o Split(SubSeq(s, i + 1, Len(s)), sep)

\* strings.Join(parts, sep)
RECURSIVE Join(_, _)
Join(parts, sep) ==
    IF parts = <<>> THEN <<>>
    ELSE IF Len(parts) = 1 THEN parts[1]
    ELSE parts[1] \o <<sep>> \o Join(Tail(parts), sep)

\* strings.ReplaceAll(s, old, new) for one-character old and new.
ReplaceAll(s, old, new) ==
    [i \in 1 .. Len(s) |-> IF s[i] = old THEN new ELSE s[i]]

Latest == <<"l", "a", "t", "e", "s", "t">>

None == <<"n", "o", "n", "e">>

parseReference(ref) ==
    LET parts == Split(ref, ":")
    IN  IF Len(parts) >= 2
        THEN [repo |-> Join(SubSeq(parts, 1, Len(parts) - 1), ":"),
              tag |-> parts[Len(parts)]]
        ELSE [repo |-> ref, tag |-> Latest]

normalizeSinceRef(newRef, sinceRef) ==
    IF Contains(sinceRef, "/") \/ Contains(sinceRef, ":")
    THEN sinceRef
    ELSE parseReference(newRef).repo \o <<":">> \o sinceRef

\* generateFilename, without the output directory.
GenerateFilename(repo, tag, sinceRef, isTarGz) ==
    LET cleanRepo == ReplaceAll(ReplaceAll(repo, "/", "_"), ":", "_")
        sinceTag  == IF sinceRef # <<>> THEN parseReference(sinceRef).tag
                     ELSE None
        ext       == IF isTarGz THEN <<".tar.gz">> ELSE <<".sh">>
    IN  cleanRepo \o <<"-">> \o tag \o <<"_", "_", "s", "i", "n", "c", "e", "-">>
            \o sinceTag \o ext

\* No function of the naming rules has been called.
NamesInit ==
    /\ index = [p \in Procs |-> <<>>]
    /\ indexFile = <<>>
    /\ files = <<>>
    /\ put = [p \in Procs |-> IdlePut]
    /\ ret = NoRet
    /\ registry = [new |-> <<>>, base |-> <<>>]
    /\ host = [hasBase |-> FALSE, base |-> <<>>]
    /\ save = Off
    /\ bundle = <<>>
    /\ load = Off
    /\ rtCalls = <<>>
    /\ now = 0
    /\ compare = Off
    /\ ob = Off
    /\ fn = Off

\* parseReference is called with ref.
ParseReferenceCall(ref) ==
    /\ fn' = [pc |-> "parseReference", ref |-> ref,
              out |-> parseReference(ref)]
    /\ UNCHANGED <<registry, host, save, bundle, load, rtCalls, now,
                   compare, ob>>
    /\ UNCHANGED cacheVars

\* The names in ExportFromRegistry called with newRef and sinceRef: the base
\* reference it fetches, and the two paths it generates, which are made from
\* sinceRef as it was given.
ExportNamesCall(newRef, sinceRef) ==
    /\ LET parsed == parseReference(newRef)
       IN  fn' = [pc |-> "ExportFromRegistry", newRef |-> newRef,
                  sinceRef |-> sinceRef,
                  fullSinceRef |-> IF sinceRef # <<>>
                                   THEN normalizeSinceRef(newRef, sinceRef)
                                   ELSE <<>>,
                  tarGzPath |-> GenerateFilename(parsed.repo, parsed.tag,
                                                 sinceRef, TRUE),
                  bundlePath |-> GenerateFilename(parsed.repo, parsed.tag,
                                                  sinceRef, FALSE)]
    /\ UNCHANGED <<registry, host, save, bundle, load, rtCalls, now,
                   compare, ob>>
    /\ UNCHANGED cacheVars

NamesNext ==
    \/ \E ref \in RefStrings : ParseReferenceCall(ref)
    \/ \E newRef \in RefStrings, sinceRef \in RefStrings \cup {<<>>} :
          /\ Len(newRef) <= 3 /\ Len(sinceRef) <= 3
          /\ ExportNamesCall(newRef, sinceRef)

SpecNames == NamesInit /\ [][NamesNext]_vars

----------------------------------------------------------------------------
(* Claims about references and file names                                  *)

\* The position of the ':' that separates the tag in ref: the rightmost ':'
\* with no '/' after it, or 0 when there is none.
TagSeparator(ref) ==
    LET IsTagSep(k) ==
            ref[k] = ":" /\ \A j \in (k + 1) .. Len(ref) : ref[j] \notin Separators
    IN  IF \E k \in 1 .. Len(ref) : IsTagSep(k)
        THEN CHOOSE k \in 1 .. Len(ref) : IsTagSep(k)
        ELSE 0

\* C35: parseReference splits at the rightmost ':' that is not part of a
\* registry host:port and returns the tag "latest" for a reference without a
\* tag: for host:port/repo the repo is the whole reference.
C35_ParseReferenceSkipsThePort ==
    fn.pc = "parseReference" =>
        LET k == TagSeparator(fn.ref)
        IN  IF k = 0
            THEN fn.out = [repo |-> fn.ref, tag |-> Latest]
            ELSE fn.out = [repo |-> SubSeq(fn.ref, 1, k - 1),
                           tag |-> SubSeq(fn.ref, k + 1, Len(fn.ref))]

\* The repo and the tag of a reference, split at its tag separator.
RepoOf(ref) ==
    IF TagSeparator(ref) = 0 THEN ref
    ELSE SubSeq(ref, 1, TagSeparator(ref) - 1)

TagOf(ref) ==
    IF TagSeparator(ref) = 0 THEN Latest
    ELSE SubSeq(ref, TagSeparator(ref) + 1, Len(ref))

\* {sanitizedRepo}-{newTag}__since-{since}{ext}
FilenameFor(ref, since, ext) ==
    ReplaceAll(ReplaceAll(RepoOf(ref), "/", "_"), ":", "_") \o <<"-">>
        \o TagOf(ref) \o <<"_", "_", "s", "i", "n", "c", "e", "-">>
        \o since \o <<ext>>

\* C36: the registry save flow names the bundle
\* {sanitizedRepo}-{newTag}__since-{baseTag|none} plus the extension, baseTag
\* being the tag of the normalized base reference: for a since value T
\* without '/' or ':' the base reference is repo:T and the name carries
\* __since-T; without a since value it carries __since-none.
C36_FilenameCarriesBaseTag ==
    fn.pc = "ExportFromRegistry" =>
        LET short   == ~Contains(fn.sinceRef, "/") /\ ~Contains(fn.sinceRef, ":")
            baseTag == IF fn.sinceRef = <<>> THEN None
                       ELSE TagOf(fn.fullSinceRef)
        IN  /\ (fn.sinceRef # <<>> /\ short) =>
                  /\ fn.fullSinceRef = RepoOf(fn.newRef) \o <<":">> \o fn.sinceRef
                  /\ baseTag = fn.sinceRef
            /\ fn.tarGzPath = FilenameFor(fn.newRef, baseTag, ".tar.gz")
            /\ fn.bundlePath = FilenameFor(fn.newRef, baseTag, ".sh")

----------------------------------------------------------------------------
(* Claims about the save without the cache                                 *)

\* C37: with the cache disabled a registry save still succeeds: every layer
\* is downloaded from the registry, and when the downloads succeeded and
\* nothing fails while packing, the save ends with a bundle that holds
\* metadata.json and the blob of every layer.
C37_NoCacheSaveSucceeds ==
    [][(save.pc # "off" /\ ~save.useCache) =>
          /\ \A i \in DOMAIN save.results :
                (~save.results[i].done /\ save'.results[i].done
                     /\ i \in save.started) =>
                    (~save'.results[i].fromCache /\ i \in DOMAIN save'.fetched)
          /\ (save.pc = "downloaded" /\ save.err = ""
                  /\ SavePack("none")) =>
                /\ save'.pc = "done"
                /\ Len(bundle') >= 1 /\ bundle'[1].name = "metadata.json"
                /\ \A i \in DOMAIN save.layersToExport :
                      \E k \in 1 .. Len(bundle') :
                          bundle'[k] = BlobEntry(
                              getBlobPath(save.layersToExport[i].digest),
                              save.layersToExport[i].blob)]_vars


----------------------------------------------------------------------------
(* Claims about when the load asks for the base image *)

\* C38: LoadBundle asks the local runtime to save baseRef if and only if
\* metadata.sharedLayerCount > 0: the load of a v2 bundle with
\* sharedLayerCount = 0, one that carries a non-empty baseRef included, makes
\* no SaveImage call and never fails for want of the base image, and the load
\* of one with sharedLayerCount > 0 and a baseRef to ask for that reaches the
\* rebuild has made the call.
C38_BaseSavedIffSharedLayers ==
    LET m == MetadataOf(bundle)
    IN  (IsV2Bundle(bundle) /\ m.version = "2")
        => /\ m.sharedLayerCount = 0
                => /\ SaveCalls = <<>>
                   /\ load.pc = "failed"
                        => load.err # "incremental import requires base image"
           /\ (m.sharedLayerCount > 0 /\ m.baseRef # "" /\ load.pc = "rebuild")
                => SaveCalls # <<>>


----------------------------------------------------------------------------
(* Claims about a stale index entry met by the download *)

\* The index lists the layer's digest and the blob file is missing.
StaleEntry(layer) ==
    /\ Exists(SaveProc, layer.digest)
    /\ getBlobPath(normalizeDigest(layer.digest)) \notin DOMAIN files

\* C39: when the index has an entry for a layer's digest and the blob file is
\* missing, downloadSingleBlob, sent the blob by the registry, returns a
\* result with fromCache = false and no error, having read the blob from the
\* registry; afterwards the index has a fresh entry for the digest, put under
\* the reference of this save alone, and the blob file holds the verified
\* blob, so that a Get of the digest succeeds.
C39_StaleEntryIsDownloadedAgain ==
    [][\A i \in DOMAIN save.results :
          LET layer == save.layersToExport[i]
              d     == normalizeDigest(layer.digest)
          IN  (/\ save.pc = "download"
               /\ StaleEntry(layer)
               /\ DownloadLayer(i, layer.blob)) =>
                 /\ save'.results[i].done
                 /\ ~save'.results[i].fromCache
                 /\ save'.results[i].err = ""
                 /\ save'.results[i].digest = layer.digest
                 /\ i \in DOMAIN save'.fetched /\ save'.fetched[i] = layer.blob
                 /\ d \in DOMAIN index'[SaveProc]
                 /\ index'[SaveProc][d].refs = <<NewRef>>
                 /\ indexFile' = index'[SaveProc]
                 /\ getBlobPath(d) \in DOMAIN files'
                 /\ Sha256(files'[getBlobPath(d)].data) = d
                 /\ GetF(index'[SaveProc], files', layer.digest).err = ""]_vars

\* The stale entry of the first tar's blob was replaced by a downloaded one.
C39_Witness ==
    /\ save.pc = "download"
    /\ \E i \in DOMAIN save.results :
          /\ save.results[i].done /\ ~save.results[i].fromCache
          /\ save.results[i].err = ""
          /\ save.results[i].digest = LayerOf(<<"t1">>).digest
    /\ index[SaveProc][normalizeDigest(LayerOf(<<"t1">>).digest)].refs
           = <<NewRef>>
    /\ getBlobPath(normalizeDigest(LayerOf(<<"t1">>).digest)) \in DOMAIN files


----------------------------------------------------------------------------
(* The daemon load path: LayerProcessor.ProcessLayers and its orderedBuffer *)

MaxObLayers == 5

\* The worker goroutines; NewLayerProcessor starts at least two.
ObWorkers == 2

\* bufferSize := 4, the capacity of outputChan as well.
bufferSize == 4

\* Who holds ob.mu: nobody, a worker, or the goroutine of run.
NoHolder == 0

RunGoroutine == ObWorkers + 1

obOthers == <<registry, host, save, bundle, load, rtCalls, now, compare, fn>>

\* ProcessLayers is called with n layers: workChan holds the indexes 0..n-1
\* in order, the workers and the goroutine of run are started.
ObInit ==
    /\ index = [p \in Procs |-> <<>>]
    /\ indexFile = <<>>
    /\ files = <<>>
    /\ put = [p \in Procs |-> IdlePut]
    /\ ret = NoRet
    /\ registry = [new |-> <<>>, base |-> <<>>]
    /\ host = [hasBase |-> FALSE, base |-> <<>>]
    /\ save = Off
    /\ bundle = <<>>
    /\ load = Off
    /\ rtCalls = <<>>
    /\ now = 0
    /\ compare = Off
    /\ fn = Off
    /\ \E n \in 0 .. MaxObLayers :
          ob = [pc |-> "run", n |-> n, work |-> 0,
                w |-> [t \in 1 .. ObWorkers |->
                          [st |-> "idle", index |-> 0, layer |-> 0]],
                buffer |-> {}, nextIndex |-> 0, outputChan |-> <<>>,
                received |-> <<>>, doneChan |-> FALSE, closed |-> FALSE,
                mu |-> NoHolder, run |-> "wait"]

\* worker, "for work := range workChan": worker t receives the next index and
\* prepares the layer (processLayer).
WorkerReceive(t) ==
    /\ ob.pc = "run"
    /\ ob.w[t].st = "idle"
    /\ ob.work < ob.n
    /\ ob' = [ob EXCEPT !.work = @ + 1,
                        !.w[t] = [st |-> "prepared", index |-> ob.work,
                                  layer |-> 0]]
    /\ UNCHANGED obOthers
    /\ UNCHANGED cacheVars

\* add: ob.mu.Lock() and ob.buffer[layer.Index] = layer.
AddLock(t) ==
    /\ ob.pc = "run"
    /\ ob.w[t].st = "prepared"
    /\ ob.mu = NoHolder
    /\ ob' = [ob EXCEPT !.mu = t,
                        !.buffer = @ \cup {ob.w[t].index},
                        !.w[t].st = "loop"]
    /\ UNCHANGED obOthers
    /\ UNCHANGED cacheVars

\* add, one turn of the loop with the mutex held.  Without a layer at
\* nextIndex the loop ends and the deferred Unlock runs.  With one and the
\* buffer at bufferSize or more, the mutex is released for the send of that
\* layer.  Otherwise the layer is sent with the mutex held, which takes room
\* in the channel, and is deleted, and nextIndex moves on.
AddLoop(t) ==
    /\ ob.pc = "run"
    /\ ob.w[t].st = "loop"
    /\ IF ob.nextIndex \notin ob.buffer
       THEN ob' = [ob EXCEPT !.mu = NoHolder, !.w[t].st = "idle"]
       ELSE IF Cardinality(ob.buffer) >= bufferSize
       THEN ob' = [ob EXCEPT !.mu = NoHolder, !.w[t].st = "send",
                             !.w[t].layer = ob.nextIndex]
       ELSE /\ Len(ob.outputChan) < bufferSize
            /\ ob' = [ob EXCEPT !.outputChan = Append(@, ob.nextIndex),
                                !.buffer = @ \ {ob.nextIndex},
                                !.nextIndex = @ + 1]
    /\ UNCHANGED obOthers
    /\ UNCHANGED cacheVars

\* add, "ob.outputChan <- layer" between ob.mu.Unlock() and ob.mu.Lock().
AddSend(t) ==
    /\ ob.pc = "run"
    /\ ob.w[t].st = "send"
    /\ Len(ob.outputChan) < bufferSize
    /\ ob' = [ob EXCEPT !.outputChan = Append(@, ob.w[t].layer),
                        !.w[t].st = "sent"]
    /\ UNCHANGED obOthers
    /\ UNCHANGED cacheVars

\* add, ob.mu.Lock() after the send, then delete(ob.buffer, ob.nextIndex) and
\* ob.nextIndex++ with the nextIndex of that moment.
AddRelock(t) ==
    /\ ob.pc = "run"
    /\ ob.w[t].st = "sent"
    /\ ob.mu = NoHolder
    /\ ob' = [ob EXCEPT !.mu = t,
                        !.buffer = @ \ {ob.nextIndex},
                        !.nextIndex = @ + 1,
                        !.w[t].st = "loop"]
    /\ UNCHANGED obOthers
    /\ UNCHANGED cacheVars

\* ProcessLayers, the sending goroutine: workChan is closed, wg.Wait() has
\* returned, finish closes doneChan.
ObFinish ==
    /\ ob.pc = "run"
    /\ ob.work = ob.n
    /\ \A t \in 1 .. ObWorkers : ob.w[t].st = "idle"
    /\ ~ob.doneChan
    /\ ob' = [ob EXCEPT !.doneChan = TRUE]
    /\ UNCHANGED obOthers
    /\ UNCHANGED cacheVars

\* run, after <-ob.doneChan: ob.mu.Lock().
RunLock ==
    /\ ob.pc = "run"
    /\ ob.doneChan
    /\ ob.run = "wait"
    /\ ob.mu = NoHolder
    /\ ob' = [ob EXCEPT !.mu = RunGoroutine, !.run = "loop"]
    /\ UNCHANGED obOthers
    /\ UNCHANGED cacheVars

\* run, one turn of the loop: the layer at nextIndex is sent, or the mutex is
\* released and outputChan is closed.
RunLoop ==
    /\ ob.pc = "run"
    /\ ob.run = "loop"
    /\ IF ob.nextIndex \in ob.buffer
       THEN /\ Len(ob.outputChan) < bufferSize
            /\ ob' = [ob EXCEPT !.outputChan = Append(@, ob.nextIndex),
                                !.buffer = @ \ {ob.nextIndex},
                                !.nextIndex = @ + 1]
       ELSE ob' = [ob EXCEPT !.mu = NoHolder, !.run = "closed",
                             !.closed = TRUE]
    /\ UNCHANGED obOthers
    /\ UNCHANGED cacheVars

\* The caller of ProcessLayers receives a layer from the channel.
ObReceive ==
    /\ ob.pc = "run"
    /\ ob.outputChan # <<>>
    /\ ob' = [ob EXCEPT !.received = Append(@, Head(ob.outputChan)),
                        !.outputChan = Tail(@)]
    /\ UNCHANGED obOthers
    /\ UNCHANGED cacheVars

ObNext ==
    \/ \E t \in 1 .. ObWorkers : WorkerReceive(t)
    \/ \E t \in 1 .. ObWorkers : AddLock(t)
    \/ \E t \in 1 .. ObWorkers : AddLoop(t)
    \/ \E t \in 1 .. ObWorkers : AddSend(t)
    \/ \E t \in 1 .. ObWorkers : AddRelock(t)
    \/ ObFinish
    \/ RunLock
    \/ RunLoop
    \/ ObReceive

SpecOrdered == ObInit /\ [][ObNext]_vars

----------------------------------------------------------------------------
(* Claims about the ordered output of the LayerProcessor *)

\* Every layer sent on outputChan so far, in the order of the sends.
ObSent == ob.received \o ob.outputChan

\* C40: the orderedBuffer sends the indexes 0..n-1 on the output channel once
\* each and in increasing order, whatever the interleaving of the workers
\* calling add and the speed of the receiver, and the channel is closed only
\* after all n were sent.
C40_EveryIndexOnceInOrder ==
    ob.pc = "run" =>
        /\ \A k \in 1 .. Len(ObSent) : ObSent[k] = k - 1
        /\ ob.closed => Len(ObSent) = ob.n

========================================================================
